---- MODULE Spec2Model ----
(***************************************************************************)
(* A model of the kronk table engine: the typed schema and row codec       *)
(* (table/schema.rs, table/bytes/mod.rs), the two row stores               *)
(* (table/store/mod.rs), the executor (table/db.rs) and the query lexer    *)
(* and parser (table/query/lex.rs).                                        *)
(*                                                                         *)
(* Text is a sequence of one-character strings, bytes are integers in      *)
(* 0..255, and a Result is a record with an ok field.                      *)
(***************************************************************************)
EXTENDS Integers, Sequences, FiniteSets, TLC

VARIABLES
    variant,    \* which ByteStore implementation the run uses: "mem" or "file"
    desc,       \* the TableDescriptor handed to every insert and query
    mem,        \* InMemoryByteStore: [id_counter, mem]
    fbs,        \* FileByteStore object: [open, id_counter]
    file,       \* the table file: NoFile, or its bytes (64-byte header, rows)
    log,        \* history: one record per insert call that has returned
    last,       \* the most recent store call, with the store as it was before
    faults,     \* number of I/O failures injected so far
    opens,      \* number of times the table file was reopened
    qres,       \* outcome of the Database::query run on the store as it is
    query,      \* the query text handed to the lexer and the parser
    parsed,     \* the result of RawSelectQuery::parse_string, once it has run
    iter,       \* a TokenIterator over the query text: [index, err]
    items,      \* the items its next() has returned so far
    call,       \* a call of a function of the schema or the resolver: [fn, ...]
    result,     \* what the call returned, and what was then made of it
    dbd,        \* a DatabaseDescriptor on its own: [db_name, tables]
    db,         \* a Database: [descriptor, table_stores]
    fs,         \* the table files of the Database, by table name
    dblast,     \* the most recent call on dbd or db, with the state before it
    dbops       \* number of calls made on dbd and db

vars == <<variant, desc, mem, fbs, file, log, last, faults, opens, qres,
          query, parsed, iter, items, call, result, dbd, db, fs, dblast, dbops>>

storeVars == <<variant, desc, mem, fbs, file, log, last, faults, opens, qres>>
parseVars == <<query, parsed, iter, items>>
callVars == <<call, result>>
dbVars == <<dbd, db, fs, dblast, dbops>>

-----------------------------------------------------------------------------
(* Bounds of the model.                                                    *)

\* insert calls per run
MaxInserts == 3
\* injected I/O failures per run
MaxFaults == 1
\* reopenings of the table file per run
MaxReopens == 1
\* capacity of the BufReader that get_reader wraps around the store; the
\* standard library's default is 8192, scaled down so that a few rows fill it
BufReaderCapacity == 40
\* calls of next() on the TokenIterator per run
MaxLexCalls == 10
MaxByteWidth == 4
MaxBufferLen == 9
MaxColumns == 3
MaxDbOps == 3

-----------------------------------------------------------------------------
(* Characters and text.                                                    *)

DigitChars == <<"0", "1", "2", "3", "4", "5", "6", "7", "8", "9">>
HexChars == <<"0", "1", "2", "3", "4", "5", "6", "7", "8", "9",
              "a", "b", "c", "d", "e", "f">>
LowerChars == <<"a", "b", "c", "d", "e", "f", "g", "h", "i", "j", "k", "l", "m",
                "n", "o", "p", "q", "r", "s", "t", "u", "v", "w", "x", "y", "z">>

Range(s) == {s[i] : i \in DOMAIN s}

IndexOf(s, c) == CHOOSE i \in DOMAIN s : s[i] = c

IsDigit(c) == c \in Range(DigitChars)
DigitVal(c) == IndexOf(DigitChars, c) - 1
IsHexDigit(c) == c \in Range(HexChars)
HexVal(c) == IndexOf(HexChars, c) - 1

\* str::as_bytes for the characters the model draws (all ASCII, one byte each)
CharCode(c) ==
    IF c \in Range(DigitChars) THEN 47 + IndexOf(DigitChars, c)
    ELSE IF c \in Range(LowerChars) THEN 96 + IndexOf(LowerChars, c)
    ELSE CASE c = " " -> 32
           [] c = "+" -> 43
           [] c = "-" -> 45
           [] c = "_" -> 95

CodeChars == Range(DigitChars) \cup Range(LowerChars) \cup {" ", "+", "-", "_"}

as_bytes(s) == [i \in DOMAIN s |-> CharCode(s[i])]

\* Result values: Ok(v), Err(e), and Panic(e) for a call that does not return
Ok(v) == [ok |-> TRUE, panic |-> FALSE, val |-> v, err |-> ""]
Err(e) == [ok |-> FALSE, panic |-> FALSE, val |-> <<>>, err |-> e]
Panic(e) == [ok |-> FALSE, panic |-> TRUE, val |-> <<>>, err |-> e]

\* String::from_utf8 on a byte sequence: the text, or an error. A byte of 128
\* or more never starts a text the model stores, and is reported as invalid.
from_utf8(bytes) ==
    IF \A i \in DOMAIN bytes : \E c \in CodeChars : CharCode(c) = bytes[i]
    THEN Ok([i \in DOMAIN bytes |-> CHOOSE c \in CodeChars : CharCode(c) = bytes[i]])
    ELSE Err("InvalidUtf8")


Min(a, b) == IF a < b THEN a ELSE b

Zeros(n) == [i \in 1..n |-> 0]

\* s[from..to) with 0-based bounds, as a Rust slice
Slice(s, from, to) == SubSeq(s, from + 1, to)

-----------------------------------------------------------------------------------------------------------------------------------------------------
(* Byte codec: table/bytes/mod.rs and the integer methods it rests on.     *)
(*                                                                         *)
(* A fixed-width integer is held as its word: the little-endian bytes of   *)
(* its two's-complement representation. Conversions from and to decimal    *)
(* text work on the word a byte at a time, so that no intermediate value   *)
(* exceeds a few thousand and every width up to 64 bits is exact.          *)

\* {integer}::to_le_bytes of a small non-negative value
RECURSIVE to_le_bytes(_, _)
to_le_bytes(v, width) ==
    IF width = 0 THEN <<>>
    ELSE <<v % 256>> \o to_le_bytes(v \div 256, width - 1)

\* u64::from_le_bytes, for a word whose value the model's integers hold
RECURSIVE from_le_bytes(_)
from_le_bytes(w) ==
    IF w = <<>> THEN 0
    ELSE w[1] + 256 * from_le_bytes(Tail(w))

IsZeroWord(w) == \A i \in DOMAIN w : w[i] = 0
IsNegative(w) == w[Len(w)] >= 128

\* w * m + c on a word: the low bytes, and the carry out of the width
RECURSIVE MulAdd(_, _, _)
MulAdd(w, m, c) ==
    IF w = <<>> THEN [w |-> <<>>, carry |-> c]
    ELSE LET t == w[1] * m + c
             rest == MulAdd(Tail(w), m, t \div 256)
         IN [w |-> <<t % 256>> \o rest.w, carry |-> rest.carry]

\* quotient and remainder of the unsigned word (r * 256^Len(w) + w) by m
RECURSIVE DivMod(_, _, _)
DivMod(w, m, r) ==
    IF w = <<>> THEN [q |-> <<>>, r |-> r]
    ELSE LET n == Len(w)
             t == r * 256 + w[n]
             rest == DivMod(SubSeq(w, 1, n - 1), m, t % m)
         IN [q |-> Append(rest.q, t \div m), r |-> rest.r]

\* two's-complement negation
Negate(w) == MulAdd([i \in DOMAIN w |-> 255 - w[i]], 1, 1).w

\* the most negative value of the width
MinWord(width) == [i \in 1..width |-> IF i = width THEN 128 ELSE 0]

\* order of two words of the same width: -1, 0 or 1
RECURSIVE CmpUnsigned(_, _)
CmpUnsigned(a, b) ==
    IF a = <<>> THEN 0
    ELSE LET n == Len(a)
         IN IF a[n] < b[n] THEN -1
            ELSE IF a[n] > b[n] THEN 1
            ELSE CmpUnsigned(SubSeq(a, 1, n - 1), SubSeq(b, 1, n - 1))

Cmp(a, b, signed) ==
    IF signed /\ IsNegative(a) # IsNegative(b)
    THEN (IF IsNegative(a) THEN -1 ELSE 1)
    ELSE CmpUnsigned(a, b)

\* ToNativeType::to_native_type for [u8]: self[..width] is taken before the
\* conversion, and indexing past the end of a slice panics
to_native_type(buf, width) ==
    IF Len(buf) < width THEN Panic("range end index out of range for slice")
    ELSE Ok(Slice(buf, 0, width))

\* {integer}::to_string
RECURSIVE UnsignedText(_)
UnsignedText(w) ==
    LET d == DivMod(w, 10, 0)
    IN IF IsZeroWord(d.q) THEN <<DigitChars[d.r + 1]>>
       ELSE UnsignedText(d.q) \o <<DigitChars[d.r + 1]>>

int_to_string(w, signed) ==
    IF signed /\ IsNegative(w) THEN <<"-">> \o UnsignedText(Negate(w))
    ELSE UnsignedText(w)

\* str::parse for an integer type: an optional sign ('-' only for a signed
\* type), then at least one digit and nothing else; an error when the value
\* leaves the type's range
RECURSIVE ParseDigits(_, _)
ParseDigits(s, acc) ==
    IF s = <<>> THEN Ok(acc)
    ELSE IF ~IsDigit(s[1]) THEN Err("InvalidDigit")
    ELSE LET next == MulAdd(acc, 10, DigitVal(s[1]))
         IN IF next.carry # 0 THEN Err("Overflow")
            ELSE ParseDigits(Tail(s), next.w)

parse_int(s, signed, width) ==
    IF s = <<>> THEN Err("Empty")
    ELSE IF s = <<"+">> \/ s = <<"-">> THEN Err("InvalidDigit")
    ELSE LET neg == signed /\ s[1] = "-"
             m == ParseDigits(IF neg \/ s[1] = "+" THEN Tail(s) ELSE s, Zeros(width))
         IN IF ~m.ok THEN m
            ELSE IF ~signed THEN m
            ELSE IF ~neg THEN (IF IsNegative(m.val) THEN Err("PosOverflow") ELSE m)
            ELSE IF IsNegative(m.val) /\ m.val # MinWord(width) THEN Err("NegOverflow")
            ELSE Ok(Negate(m.val))

-----
(* Schema: table/schema.rs.                                                *)

\* ColumnDataType: a tag, and the width n of a Byte(n)
SerialId == [tag |-> "SerialId", n |-> 0]
Boolean == [tag |-> "Boolean", n |-> 0]
Int32 == [tag |-> "Int32", n |-> 0]
UInt32 == [tag |-> "UInt32", n |-> 0]
Int64 == [tag |-> "Int64", n |-> 0]
UInt64 == [tag |-> "UInt64", n |-> 0]
UuidV4 == [tag |-> "UuidV4", n |-> 0]
Byte(n) == [tag |-> "Byte", n |-> n]

size_in_bytes(t) ==
    CASE t.tag = "SerialId" -> 8
      [] t.tag = "Byte" -> t.n
      [] t.tag = "Boolean" -> 1
      [] t.tag = "Int32" -> 4
      [] t.tag = "UInt32" -> 4
      [] t.tag = "Int64" -> 8
      [] t.tag = "UInt64" -> 8
      [] t.tag = "UuidV4" -> 128

\* Uuid's 16 bytes from 32 hexadecimal digits
uuid_from_hex(h) == [i \in 1..16 |-> 16 * HexVal(h[2 * i - 1]) + HexVal(h[2 * i])]

\* str::parse::<Uuid>: 32 hexadecimal digits, bare or in 8-4-4-4-12 groups
\* separated by '-' (the braced and urn forms need characters the model does
\* not draw)
uuid_parse(s) ==
    IF Len(s) = 32 /\ \A i \in 1..32 : IsHexDigit(s[i])
    THEN Ok(uuid_from_hex(s))
    ELSE IF /\ Len(s) = 36
            /\ \A i \in {9, 14, 19, 24} : s[i] = "-"
            /\ \A i \in (1..36) \ {9, 14, 19, 24} : IsHexDigit(s[i])
    THEN Ok(uuid_from_hex(SubSeq(s, 1, 8) \o SubSeq(s, 10, 13) \o SubSeq(s, 15, 18)
                          \o SubSeq(s, 20, 23) \o SubSeq(s, 25, 36)))
    ELSE Err("InvalidUuid")

\* Uuid::to_string: lower-case hexadecimal in 8-4-4-4-12 groups
uuid_to_string(b) ==
    LET hex == [i \in 1..32 |->
                   IF i % 2 = 1 THEN HexChars[(b[(i + 1) \div 2] \div 16) + 1]
                   ELSE HexChars[(b[i \div 2] % 16) + 1]]
    IN SubSeq(hex, 1, 8) \o <<"-">> \o SubSeq(hex, 9, 12) \o <<"-">>
       \o SubSeq(hex, 13, 16) \o <<"-">> \o SubSeq(hex, 17, 20) \o <<"-">>
       \o SubSeq(hex, 21, 32)

\* whether an integer column type is signed
IsSigned(t) == t.tag \in {"Int32", "Int64"}

parse_string(t, s) ==
    CASE t.tag = "SerialId" -> Err("Cannot provide an argument for serial ids")
      [] t.tag = "Boolean" ->
            IF s = <<"t", "r", "u", "e">> THEN Ok(<<1>>)
            ELSE IF s = <<"f", "a", "l", "s", "e">> THEN Ok(<<0>>)
            ELSE Err("Could not parse to a boolean")
      [] t.tag \in {"Int32", "UInt32", "Int64", "UInt64"} ->
            LET r == parse_int(s, IsSigned(t), size_in_bytes(t))
            IN IF r.ok THEN r ELSE Err("Could not parse to an integer")
      [] t.tag = "UuidV4" ->
            LET r == uuid_parse(s)
            IN IF r.ok THEN Ok(r.val) ELSE Err("Could not parse to a Uuid")
      [] t.tag = "Byte" ->
            LET s_bytes_len == Len(as_bytes(s))
            IN IF s_bytes_len >= t.n - 1
               THEN Err("Could not add string as Byte because it's too long!")
               ELSE Ok(as_bytes(s) \o Zeros(t.n - s_bytes_len))

\* the bytes of a sequence before its first zero byte
RECURSIVE take_while_nonzero(_)
take_while_nonzero(bytes) ==
    IF bytes = <<>> \/ bytes[1] = 0 THEN <<>>
    ELSE <<bytes[1]>> \o take_while_nonzero(Tail(bytes))

\* ColumnDataType::from_bytes_to_string
from_bytes_to_string(buf, width, signed) ==
    LET r == to_native_type(buf, width)
    IN IF r.ok THEN Ok(int_to_string(r.val, signed)) ELSE r

parse_bytes(t, bytes) ==
    CASE t.tag = "SerialId" -> from_bytes_to_string(bytes, 8, FALSE)
      [] t.tag = "UuidV4" ->
            IF Len(bytes) < 16 THEN Panic("range end index out of range for slice")
            ELSE Ok(uuid_to_string(Slice(bytes, 0, 16)))
      [] t.tag = "Int32" -> from_bytes_to_string(bytes, 4, TRUE)
      [] t.tag = "UInt32" -> from_bytes_to_string(bytes, 4, FALSE)
      [] t.tag = "Int64" -> from_bytes_to_string(bytes, 8, TRUE)
      [] t.tag = "UInt64" -> from_bytes_to_string(bytes, 8, FALSE)
      [] t.tag = "Boolean" ->
            IF Len(bytes) < 1 THEN Panic("range end index out of range for slice")
            ELSE Ok(IF bytes[1] # 0 THEN <<"t", "r", "u", "e">>
                    ELSE <<"f", "a", "l", "s", "e">>)
      [] t.tag = "Byte" ->
            IF Len(bytes) < t.n THEN Err("Insufficient byte buffer size")
            ELSE LET r == from_utf8(take_while_nonzero(bytes))
                 IN IF r.ok THEN r
                    ELSE Err("could not parse byte buffer to a valid utf-8 string")

\* an offset that counts the columns before the i-th, eight bytes each
OffsetOfEightByteColumns(columns, i) == 8 * (i - 1)

\* a TableDescriptor::new that asks for at least one serial id
TableDescriptor_new_with_some_serial_id(name, columns) ==
    IF Cardinality({i \in DOMAIN columns : columns[i][2] = SerialId}) = 0
    THEN Err("Table descriptor requires exactly 1 serial id")
    ELSE Ok([table_name |-> name,
             columns |-> [i \in DOMAIN columns |->
                             [name |-> columns[i][1],
                              datatype |-> columns[i][2],
                              offset |-> 0]]])

\* TableDescriptor::new: columns is a sequence of <<name, type>>
RECURSIVE OffsetOf(_, _)
OffsetOf(columns, i) ==
    IF i = 1 THEN 0
    ELSE OffsetOf(columns, i - 1) + size_in_bytes(columns[i - 1][2])

TableDescriptor_new(name, columns) ==
    IF Cardinality({i \in DOMAIN columns : columns[i][2] = SerialId}) # 1
    THEN Err("Table descriptor requires exactly 1 serial id")
    ELSE Ok([table_name |-> name,
             columns |-> [i \in DOMAIN columns |->
                             [name |-> columns[i][1],
                              datatype |-> columns[i][2],
                              offset |-> OffsetOf(columns, i)]]])

RECURSIVE SumSizes(_)
SumSizes(cols) ==
    IF cols = <<>> THEN 0
    ELSE size_in_bytes(cols[1].datatype) + SumSizes(Tail(cols))

\* TableDescriptor::total_size (called total_row_size by the stores and the
\* executor)
total_row_size(d) == SumSizes(d.columns)

\* TableDescriptor::id_column: the first SerialId column
id_column(d) ==
    d.columns[CHOOSE i \in DOMAIN d.columns :
                 /\ d.columns[i].datatype = SerialId
                 /\ \A j \in 1..(i - 1) : d.columns[j].datatype # SerialId]

\* Iterator::find over a sequence: the index of the first element with the
\* name, or 0
FindName(s, name) ==
    IF \E i \in DOMAIN s : s[i].name = name
    THEN CHOOSE i \in DOMAIN s : s[i].name = name /\ \A j \in 1..(i - 1) : s[j].name # name
    ELSE 0

\* TableDescriptor::get_insertion_bytes: columns is a sequence of
\* [name, value] arguments; the first parse error ends the call
RECURSIVE InsertionBytes(_, _, _, _)
InsertionBytes(cols, id, columns, o) ==
    IF cols = <<>> THEN Ok(o)
    ELSE LET dtc == cols[1]
             k == FindName(columns, dtc.name)
         IN IF dtc.datatype = SerialId
            THEN InsertionBytes(Tail(cols), id, columns, o \o to_le_bytes(id, 8))
            ELSE IF k # 0
            THEN LET parsed_arg == parse_string(dtc.datatype, columns[k].value)
                 IN IF parsed_arg.ok
                    THEN InsertionBytes(Tail(cols), id, columns, o \o parsed_arg.val)
                    ELSE parsed_arg
            ELSE InsertionBytes(Tail(cols), id, columns,
                                o \o Zeros(size_in_bytes(dtc.datatype)))

\* a get_insertion_bytes that writes nothing for a column without a value
get_insertion_bytes_of_supplied(d, id, columns) ==
    InsertionBytes(SelectSeq(d.columns,
                             LAMBDA c : c.datatype = SerialId \/ FindName(columns, c.name) # 0),
                   id, columns, <<>>)

get_insertion_bytes(d, id, columns) == InsertionBytes(d.columns, id, columns, <<>>)

-----------------------------------------------------------------------------
(* Typed WHERE comparisons: table/query/mod.rs.                            *)

\* PartialEqOperator::from_str and PartialOrdOperator::from_str (trim, then
\* an exact match), and EqOrdOperator::from_str which tries both
EqOperators == {"==", "!="}
OrdOperators == {">=", ">", "<=", "<"}

parse_eq_operator(op) == IF op \in EqOperators THEN Ok(op) ELSE Err("Invalid partial eq operator")
parse_eq_ord_operator(op) ==
    IF op \in EqOperators \cup OrdOperators THEN Ok(op) ELSE Err("invalid operator")

\* EqOrdOperator::evaluate / PartialEqOperator::evaluate on (a, b); the
\* ordering operators are applied to integer words only
evaluate(op, a, b, signed) ==
    CASE op = "==" -> a = b
      [] op = "!=" -> a # b
      [] op = ">" -> Cmp(a, b, signed) = 1
      [] op = ">=" -> Cmp(a, b, signed) >= 0
      [] op = "<" -> Cmp(a, b, signed) = -1
      [] op = "<=" -> Cmp(a, b, signed) <= 0

\* parse_where_comparison with the operator of every column type read as an
\* EqOrdOperator
parse_where_comparison_any_operator(t, op, value) ==
    IF ~parse_eq_ord_operator(op).ok THEN Err("Invalid where expression: bad operator")
    ELSE Ok([kind |-> IF t.tag = "Byte" THEN "String" ELSE t.tag,
             operator |-> op, value |-> value])

\* ColumnDataType::parse_where_comparison: the value is parsed first, then
\* the operator; a WhereComparison is [kind, operator, value]
parse_where_comparison(t, op, value) ==
    LET v == CASE t.tag = "Boolean" ->
                     IF value = <<"t", "r", "u", "e">> THEN Ok(TRUE)
                     ELSE IF value = <<"f", "a", "l", "s", "e">> THEN Ok(FALSE)
                     ELSE Err("not a boolean value")
               [] t.tag \in {"SerialId", "Int32", "UInt32", "Int64", "UInt64"} ->
                     parse_int(value, IsSigned(t), size_in_bytes(t))
               [] t.tag = "UuidV4" -> uuid_parse(value)
               [] t.tag = "Byte" -> Ok(value)
        o == IF t.tag \in {"Boolean", "UuidV4", "Byte"} THEN parse_eq_operator(op)
             ELSE parse_eq_ord_operator(op)
    IN IF ~v.ok THEN Err("Invalid where expression: bad value")
       ELSE IF ~o.ok THEN Err("Invalid where expression: bad operator")
       ELSE Ok([kind |-> IF t.tag = "Byte" THEN "String" ELSE t.tag,
                operator |-> o.val, value |-> v.val])

\* WhereComparison::is_true on the row bytes from the column's offset on:
\* Ok(TRUE), Ok(FALSE), or a panic from a slice index or an unwrap
is_true(cmp, buf) ==
    CASE cmp.kind = "SerialId" ->
             IF Len(buf) < 8 THEN Panic("range end index out of range for slice")
             ELSE Ok(evaluate(cmp.operator, Slice(buf, 0, 8), cmp.value, FALSE))
      [] cmp.kind \in {"Int32", "UInt32", "Int64", "UInt64"} ->
             LET w == IF cmp.kind \in {"Int32", "UInt32"} THEN 4 ELSE 8
                 r == to_native_type(buf, w)
             IN IF r.ok
                THEN Ok(evaluate(cmp.operator, r.val, cmp.value, cmp.kind \in {"Int32", "Int64"}))
                ELSE Panic(r.err)
      [] cmp.kind = "UuidV4" ->
             IF Len(buf) < 16 THEN Panic("range end index out of range for slice")
             ELSE Ok(evaluate(cmp.operator, Slice(buf, 0, 16), cmp.value, FALSE))
      [] cmp.kind = "Boolean" ->
             IF Len(buf) < 1 THEN Panic("index out of bounds")
             ELSE Ok(evaluate(cmp.operator, buf[1] # 0, cmp.value, FALSE))
      [] cmp.kind = "String" ->
             LET r == from_utf8(take_while_nonzero(buf))
             IN IF r.ok THEN Ok(evaluate(cmp.operator, r.val, cmp.value, FALSE))
                ELSE Panic("called unwrap on an Err value")

-----------------------------------------------------------------------------
(* Row stores: table/store/mod.rs.                                         *)

\* size of the table file's header
HeaderSize == 64

InMemoryByteStore_new(d) ==
    [table_name |-> d.table_name, id_counter |-> 1, mem |-> <<>>]

\* InMemoryByteStore::insert: the store after the call and what it returns
InMemoryByteStore_insert(store, d, columns) ==
    LET id == store.id_counter
        bytes == get_insertion_bytes(d, id, columns)
    IN IF ~bytes.ok THEN [store |-> store, ret |-> Err(bytes.err), id |-> id]
       ELSE LET counted == [store EXCEPT !.id_counter = id + 1]
            IN IF Len(bytes.val) # total_row_size(d)
               THEN [store |-> counted, ret |-> Err("invalid table insertion"), id |-> id]
               ELSE [store |-> [counted EXCEPT !.mem = store.mem \o bytes.val],
                     ret |-> Ok(<<>>), id |-> id]

\* InMemoryByteStore::get_reader reads self.mem
InMemoryByteStore_data(store) == store.mem

\* FileByteStore::new: creates the file with a zeroed header when it does
\* not exist, and leaves an existing file as it is
FileByteStore_new(d, f) ==
    [fbs |-> [open |-> TRUE, table_name |-> d.table_name, id_counter |-> 0],
     file |-> IF f.exists THEN f ELSE [exists |-> TRUE, bytes |-> Zeros(HeaderSize)]]

\* FileByteStore::get_id_counter: bytes 0..8 of the file
get_id_counter(f) ==
    LET r == to_native_type(Slice(f.bytes, 0, 8), 8)
    IN IF r.ok THEN Ok(from_le_bytes(r.val)) ELSE r

\* FileByteStore::set_id_counter: overwrites bytes 0..8 of the file
set_id_counter(f, id) ==
    [f EXCEPT !.bytes = to_le_bytes(id, 8) \o SubSeq(f.bytes, 9, Len(f.bytes))]

\* The places where an I/O call of FileByteStore::insert can fail
InsertFaults == {"open", "read_id", "seek", "write_row", "set_id"}

\* write_all can fail after any part of the row has reached the file; the
\* model draws three lengths of that part
PartialLengths(n) == {0, 1, n - 1}

\* FileByteStore::insert with the I/O failure `fault` ("none" for none) and,
\* for a failing write_all, the number `part` of row bytes already written
FileByteStore_insert(f, d, columns, fault, part) ==
    IF fault = "open" THEN [file |-> f, ret |-> Err("failed opening table file!"), id |-> -1]
    ELSE IF fault = "read_id" THEN [file |-> f, ret |-> Err("could not get id"), id |-> -1]
    ELSE LET id == get_id_counter(f).val
             bytes == get_insertion_bytes(d, id, columns)
         IN IF ~bytes.ok THEN [file |-> f, ret |-> Err(bytes.err), id |-> id]
            ELSE IF Len(bytes.val) # total_row_size(d)
            THEN [file |-> f, ret |-> Err("invalid table insertion"), id |-> id]
            ELSE IF fault = "seek"
            THEN [file |-> f, ret |-> Err("could not seek to end for appending"), id |-> id]
            ELSE IF fault = "write_row"
            THEN [file |-> [f EXCEPT !.bytes = f.bytes \o SubSeq(bytes.val, 1, part)],
                  ret |-> Err("failed writing row to file"), id |-> id]
            ELSE LET appended == [f EXCEPT !.bytes = f.bytes \o bytes.val]
                 IN IF fault = "set_id"
                    THEN [file |-> appended, ret |-> Ok(<<>>), id |-> id]
                    ELSE [file |-> set_id_counter(appended, id + 1), ret |-> Ok(<<>>), id |-> id]

\* FileByteStore::get_reader: the file from offset 64 on
FileByteStore_data(f) == SubSeq(f.bytes, HeaderSize + 1, Len(f.bytes))

-----------------------------------------------------------------------------
(* Executor: table/db.rs.                                                  *)

\* BufReader::read of up to len bytes from the stream `data`. rd is the
\* reader: pos bytes were taken from the stream, avail of them are buffered
\* and not yet delivered. An empty buffer is refilled with up to
\* BufReaderCapacity bytes, unless len is at least the capacity, when the
\* read goes to the stream directly. Delivers n bytes starting at `start`.
BufReader_read(data, rd, len) ==
    IF rd.avail = 0 /\ len >= BufReaderCapacity
    THEN LET n == Min(len, Len(data) - rd.pos)
         IN [n |-> n, start |-> rd.pos, rd |-> [pos |-> rd.pos + n, avail |-> 0]]
    ELSE LET filled == IF rd.avail = 0 THEN Min(BufReaderCapacity, Len(data) - rd.pos)
                       ELSE rd.avail
             pos == IF rd.avail = 0 THEN rd.pos + filled ELSE rd.pos
             n == Min(len, filled)
         IN [n |-> n, start |-> pos - filled, rd |-> [pos |-> pos, avail |-> filled - n]]

\* the conjunction of the WHERE conditions on a row, left to right, stopping
\* at the first false one
RECURSIVE all_conditions(_, _)
all_conditions(conditions, bytes) ==
    IF conditions = <<>> THEN Ok(TRUE)
    ELSE LET wc == conditions[1]
             r == is_true(wc.comparison, Slice(bytes, wc.column.offset, Len(bytes)))
         IN IF ~r.ok THEN r
            ELSE IF ~r.val THEN Ok(FALSE)
            ELSE all_conditions(Tail(conditions), bytes)

\* the projected columns of a row: <<name, text>> pairs, or the panic of the
\* first unwrap that fails
RECURSIVE column_data(_, _, _)
column_data(columns, bytes, acc) ==
    IF columns = <<>> THEN Ok(acc)
    ELSE LET c == columns[1]
             r == parse_bytes(c.datatype, Slice(bytes, c.offset, Len(bytes)))
         IN IF ~r.ok THEN Panic("called unwrap on an Err value")
            ELSE column_data(Tail(columns), bytes, Append(acc, <<c.name, r.val>>))

\* the loop of Database::query
RECURSIVE query_loop(_, _, _, _, _)
query_loop(q, data, rd, out, rows) ==
    LET row_size == total_row_size(q.table)
        got == BufReader_read(data, rd, row_size)
        bytes == Slice(data, got.start, got.start + got.n)
    IN IF got.n = 0 THEN [status |-> "returned", out |-> out, rows |-> rows]
       ELSE IF got.n # row_size
       THEN [status |-> "panicked", out |-> <<>>, rows |-> rows]
       ELSE LET id_col == id_column(q.table)
                id_text == parse_bytes(id_col.datatype, Slice(bytes, id_col.offset, Len(bytes)))
                row_id == IF id_text.ok THEN parse_int(id_text.val, FALSE, 8) ELSE id_text
                where_cond == IF q.where_predicate = <<>> THEN Ok(TRUE)
                              ELSE all_conditions(q.where_predicate[1], bytes)
                projected == column_data(q.columns, bytes, <<>>)
            IN IF ~row_id.ok \/ ~where_cond.ok
               THEN [status |-> "panicked", out |-> <<>>, rows |-> rows]
               ELSE IF ~where_cond.val
               THEN query_loop(q, data, got.rd, out, rows + 1)
               ELSE IF ~projected.ok
               THEN [status |-> "panicked", out |-> <<>>, rows |-> rows]
               ELSE query_loop(q, data, got.rd,
                               Append(out, [id |-> row_id.val, columns |-> projected.val]),
                               rows + 1)

\* Database::query on the bytes the store's reader yields
Database_query(q, data) == query_loop(q, data, [pos |-> 0, avail |-> 0], <<>>, 0)

\* TableDescriptor::column_for_name: the index of the first column with the
\* name, or 0
column_for_name(d, name) == FindName(d.columns, name)

\* A SelectQuery over table d, as the resolver builds it: the named columns,
\* and the conditions <<column name, operator, value>> as typed comparisons.
\* where_predicate is <<>> (None) or <<conditions>>.
SelectQuery_of(d, names, conds) ==
    [table |-> d,
     columns |-> [i \in DOMAIN names |-> d.columns[column_for_name(d, names[i])]],
     where_predicate |->
        IF conds = <<>> THEN <<>>
        ELSE << [i \in DOMAIN conds |->
                    LET c == d.columns[column_for_name(d, conds[i][1])]
                    IN [column |-> c,
                        comparison |->
                            parse_where_comparison(c.datatype, conds[i][2], conds[i][3]).val]] >>]

-----------------------------------------------------------------------------
(* The tables, insert arguments and queries the model draws.               *)

Books ==
    TableDescriptor_new("books",
        << <<"id", SerialId>>, <<"author", Byte(4)>>,
           <<"year", Int32>>, <<"us", Boolean>> >>).val

Tokens ==
    TableDescriptor_new("tokens", << <<"id", SerialId>>, <<"u", UuidV4>> >>).val

Descriptors == {Books, Tokens}

Arg(name, value) == [name |-> name, value |-> value]

Text1932 == <<"1", "9", "3", "2">>
Text1917 == <<"1", "9", "1", "7">>
TextTrue == <<"t", "r", "u", "e">>
TextUuid == <<"0", "0", "1", "1", "2", "2", "3", "3", "-", "4", "4", "5", "5", "-",
              "6", "6", "7", "7", "-", "8", "8", "9", "9", "-",
              "a", "a", "b", "b", "c", "c", "d", "d", "e", "e", "f", "f">>

\* argument lists for insert: complete and partial rows, a value that does
\* not parse, a Byte(4) value that is too long, an unknown column
InsertArgs(d) ==
    IF d = Books
    THEN { <<>>,
           <<Arg("author", <<"a", "b">>), Arg("year", Text1932)>>,
           <<Arg("year", Text1917), Arg("us", TextTrue), Arg("nonesuch", <<"x">>)>>,
           <<Arg("year", <<"x">>)>>,
           <<Arg("author", <<"a", "b", "c">>)>> }
    ELSE { <<>>, <<Arg("u", TextUuid)>> }

Queries(d) ==
    IF d = Books
    THEN { SelectQuery_of(Books, <<"id", "author", "year">>, <<>>),
           SelectQuery_of(Books, <<"year", "id">>, << <<"year", ">=", <<"1", "9", "3", "0">>>> >>),
           SelectQuery_of(Books, <<"author">>, << <<"author", "==", <<"a", "b">>>> >>),
           SelectQuery_of(Books, <<"us", "year">>,
                          << <<"us", "!=", TextTrue>>, <<"id", "<", <<"2">>>> >>),
           SelectQuery_of(Books, <<>>, << <<"year", "<", <<"1">>>> >>) }
    ELSE { SelectQuery_of(Tokens, <<"id", "u">>, <<>>),
           SelectQuery_of(Tokens, <<"id">>, << <<"id", ">=", <<"1">>>> >>) }

-----------------------------------------------------------------------------
(* The query lexer (table/query/lex.rs).                                   *)

\* Result values whose payload is a record or a flag: the payload sits in a
\* sequence of length one, and the other side is the empty sequence
OkOf(v) == [ok |-> TRUE, val |-> <<v>>, err |-> <<>>]
ErrOf(e) == [ok |-> FALSE, val |-> <<>>, err |-> <<e>>]

\* QueryToken: Keyword and Character carry the name of the enum variant,
\* String and Number carry their text
Keyword(kw) == [kind |-> "Keyword", text |-> <<kw>>]
Character(c) == [kind |-> "Character", text |-> <<c>>]
String(s) == [kind |-> "String", text |-> s]
Number(s) == [kind |-> "Number", text |-> s]

\* LexingError; c is the offending character, "" where the variant has none
LexingError(name, c) == [name |-> name, char |-> c]

\* ParsingError
Lexing(e) == [error |-> "Lexing", lexing |-> <<e>>, expected |-> <<>>, found |-> <<>>]
UnexpectedToken(expected, found) ==
    [error |-> "UnexpectedToken", lexing |-> <<>>,
     expected |-> <<expected>>, found |-> <<found>>]
UnexpectedEndOfInput ==
    [error |-> "UnexpectedEndOfInput", lexing |-> <<>>, expected |-> <<>>, found |-> <<>>]

\* char::is_whitespace, is_alphabetic and is_numeric on the characters the
\* model draws
CharIs(class, c) ==
    CASE class = "whitespace" -> c = " "
      [] class = "alphabetic" -> c \in Range(LowerChars)
      [] class = "numeric" -> c \in Range(DigitChars)

\* TryFrom<&str> for KeywordToken: the keyword, or nothing
KeywordToken_try_from(value) ==
    CASE value = <<"s", "e", "l", "e", "c", "t">> -> <<"Select">>
      [] value = <<"f", "r", "o", "m">> -> <<"From">>
      [] value = <<"w", "h", "e", "r", "e">> -> <<"Where">>
      [] value = <<"a", "s">> -> <<"As">>
      [] OTHER -> <<>>

TokenIterator_new == [index |-> 0, err |-> <<>>]

\* the index advance_while stops at, starting from index
RECURSIVE advance_while(_, _, _)
advance_while(token_string, index, class) ==
    IF index < Len(token_string) /\ CharIs(class, token_string[index + 1])
    THEN advance_while(token_string, index + 1, class)
    ELSE index

\* consume_in_string from index, the opening quote already passed:
\* the result and the index it leaves
RECURSIVE consume_in_string(_, _, _, _)
consume_in_string(token_string, index, esc, acc) ==
    IF Len(token_string) - index > 0
    THEN LET c == token_string[index + 1] IN
         IF c = "\"" /\ ~esc
         THEN [ret |-> OkOf(String(acc)), index |-> index + 1]
         ELSE IF esc
         THEN IF c = "\""
              THEN consume_in_string(token_string, index + 1, FALSE, Append(acc, "\""))
              ELSE [ret |-> ErrOf(LexingError("InvalidEscapeCharacter", c)),
                    index |-> index]
         ELSE IF c = "\\"
         THEN consume_in_string(token_string, index + 1, TRUE, acc)
         ELSE consume_in_string(token_string, index + 1, FALSE, Append(acc, c))
    ELSE [ret |-> ErrOf(LexingError("UnexpectedEndOfInput", "")), index |-> index]

SingleCharacters ==
    [c \in {"(", ")", "[", "]", ".", ","} |->
        CASE c = "(" -> "LeftParen"
          [] c = ")" -> "RightParen"
          [] c = "[" -> "LeftBracket"
          [] c = "]" -> "RightBracket"
          [] c = "." -> "Dot"
          [] c = "," -> "Comma"]

\* Iterator::next for TokenIterator: the item (nothing, or a result) and the
\* iterator afterwards
TokenIterator_next(token_string, it) ==
    IF it.err # <<>> THEN [item |-> <<>>, it |-> it]
    ELSE
    LET index == advance_while(token_string, it.index, "whitespace") IN
    IF index >= Len(token_string)
    THEN [item |-> <<>>, it |-> [it EXCEPT !.index = index]]
    ELSE
    LET fc == token_string[index + 1] IN
    IF CharIs("alphabetic", fc)
    THEN LET end == advance_while(token_string, index, "alphabetic")
             ss == Slice(token_string, index, end)
             kw == KeywordToken_try_from(ss)
         IN [item |-> <<OkOf(IF kw # <<>> THEN Keyword(kw[1]) ELSE String(ss))>>,
             it |-> [it EXCEPT !.index = end]]
    ELSE IF CharIs("numeric", fc)
    THEN LET end == advance_while(token_string, index, "numeric")
         IN [item |-> <<OkOf(Number(Slice(token_string, index, end)))>>,
             it |-> [it EXCEPT !.index = end]]
    ELSE IF fc = "\""
    THEN LET r == consume_in_string(token_string, index + 1, FALSE, <<>>)
         IN [item |-> <<r.ret>>, it |-> [it EXCEPT !.index = r.index]]
    ELSE IF fc \in DOMAIN SingleCharacters
    THEN [item |-> <<OkOf(Character(SingleCharacters[fc]))>>,
          it |-> [it EXCEPT !.index = index + 1]]
    ELSE IF fc \in {"=", "<", ">", "!"}
    THEN IF index + 1 >= Len(token_string)
         THEN [item |-> <<ErrOf(LexingError("UnexpectedEndOfInput", ""))>>,
               it |-> [it EXCEPT !.index = index]]
         ELSE LET sc == token_string[index + 2] IN
              IF sc = "="
              THEN [item |-> <<OkOf(Character(CASE fc = "=" -> "EqualEqual"
                                                [] fc = "!" -> "NotEqual"
                                                [] fc = "<" -> "LessEqual"
                                                [] fc = ">" -> "GreaterEqual"))>>,
                    it |-> [it EXCEPT !.index = index + 2]]
              ELSE IF fc = ">"
              THEN [item |-> <<OkOf(Character("GreaterThan"))>>,
                    it |-> [it EXCEPT !.index = index + 2]]
              ELSE IF fc = "<"
              THEN [item |-> <<OkOf(Character("LessThan"))>>,
                    it |-> [it EXCEPT !.index = index + 2]]
              ELSE [item |-> <<ErrOf(LexingError("UnexpectedCharacter", fc))>>,
                    it |-> [index |-> index + 2,
                            err |-> <<LexingError("UnexpectedCharacter", fc)>>]]
    ELSE [item |-> <<ErrOf(LexingError("UnexpectedCharacter", fc))>>,
          it |-> [index |-> index,
                  err |-> <<LexingError("UnexpectedCharacter", fc)>>]]

-----------------------------------------------------------------------------
(* The query parser (table/query/lex.rs). The TokenParser reads a query    *)
(* text through a Peekable around a TokenIterator; it is modelled by the   *)
(* items the iterator yields for the text and the number p of them the     *)
(* parser has taken. A parser operation takes both and gives [p, ret]:     *)
(* the number taken afterwards and the value returned.                     *)

\* the map over the iterator: a LexingError becomes ParsingError::Lexing
MapItem(item) ==
    IF item[1].ok THEN item ELSE <<ErrOf(Lexing(item[1].err[1]))>>

\* the items of the first n calls of next(), up to the first that is nothing
\* (every call after that one yields nothing as well)
RECURSIVE TokenIterator_items(_, _, _)
TokenIterator_items(token_string, it, n) ==
    IF n = 0 THEN <<>>
    ELSE LET r == TokenIterator_next(token_string, it) IN
         IF r.item = <<>> THEN <<>>
         ELSE <<MapItem(r.item)>> \o TokenIterator_items(token_string, r.it, n - 1)

\* the items the parser can reach: it takes a token only after it has seen
\* that the token is no error, and a token is at least one character long
TokenParser_items(query_text) ==
    TokenIterator_items(query_text, TokenIterator_new, Len(query_text) + 1)

TokenParser_new == 0

\* Peekable::peek: the item after those taken, nothing past the last one
Peekable_peek(tokens, p) == IF p < Len(tokens) THEN tokens[p + 1] ELSE <<>>

\* TokenParser::next: take the current item
TokenParser_next(tokens, p) == Min(p + 1, Len(tokens))

\* the ? operator: the rest K of an operation runs on what the step r gave,
\* unless r returned an error, which is then what the operation returns
Try(r, K(_)) == IF r.ret.ok THEN K(r) ELSE r

Return(p, v) == [p |-> p, ret |-> OkOf(v)]
Fail(p, e) == [p |-> p, ret |-> ErrOf(e)]

is_finished(tokens, p) == [p |-> p, ret |-> Peekable_peek(tokens, p) = <<>>]

expect_current_token(tokens, p) ==
    [p |-> p,
     ret |-> IF Peekable_peek(tokens, p) = <<>> THEN ErrOf(UnexpectedEndOfInput)
             ELSE Peekable_peek(tokens, p)[1]]

consume_token(tokens, p) == expect_current_token(tokens, TokenParser_next(tokens, p))

\* is_a_keyword and is_a_character: whether the current token is tok
is_a_token(tokens, p, tok) ==
    Try(expect_current_token(tokens, p), LAMBDA t : Return(t.p, t.ret.val[1] = tok))

is_a_keyword(tokens, p, keyword) == is_a_token(tokens, p, Keyword(keyword))
is_a_character(tokens, p, character) == is_a_token(tokens, p, Character(character))

expect_is_a_keyword(tokens, p, keyword) ==
    Try(expect_current_token(tokens, p), LAMBDA t :
        IF t.ret.val[1] = Keyword(keyword) THEN Return(t.p, TRUE)
        ELSE Fail(t.p, UnexpectedToken(Keyword(keyword), t.ret.val[1])))

consume_a_keyword(tokens, p, keyword) ==
    Try(expect_is_a_keyword(tokens, p, keyword), LAMBDA e :
    Try(consume_token(tokens, e.p), LAMBDA c :
        Return(c.p, TRUE)))

\* maybe_consume_a_keyword and maybe_consume_a_character
maybe_consume_a_token(tokens, p, tok) ==
    Try(is_a_token(tokens, p, tok), LAMBDA v :
        IF ~v.ret.val[1] THEN v
        ELSE Try(consume_token(tokens, v.p), LAMBDA c : Return(c.p, TRUE)))

maybe_consume_a_keyword(tokens, p, keyword) ==
    maybe_consume_a_token(tokens, p, Keyword(keyword))
maybe_consume_a_character(tokens, p, character) ==
    maybe_consume_a_token(tokens, p, Character(character))

expect_is_character(tokens, p) ==
    Try(expect_current_token(tokens, p), LAMBDA t :
        IF t.ret.val[1].kind = "Character" THEN Return(t.p, t.ret.val[1].text[1])
        ELSE Fail(t.p, UnexpectedToken(Character("Comma"), t.ret.val[1])))

consume_character(tokens, p) ==
    Try(expect_is_character(tokens, p), LAMBDA e :
    Try(consume_token(tokens, e.p), LAMBDA c :
        Return(c.p, e.ret.val[1])))

is_string(tokens, p) ==
    Try(expect_current_token(tokens, p), LAMBDA t :
        Return(t.p, t.ret.val[1].kind = "String"))

expect_string(tokens, p) ==
    Try(expect_current_token(tokens, p), LAMBDA t :
        IF t.ret.val[1].kind = "String" THEN Return(t.p, t.ret.val[1].text)
        ELSE Fail(t.p, UnexpectedToken(String(<<>>), t.ret.val[1])))

\* consume_string: the result of the consume_token it calls is dropped
consume_string(tokens, p) ==
    Try(expect_string(tokens, p), LAMBDA exp :
        [p |-> consume_token(tokens, exp.p).p, ret |-> exp.ret])

\* TryFrom<CharacterToken> for RawSelectQueryWhereExpressionOperator
Operator_try_from(p, value) ==
    IF value \in {"GreaterThan", "GreaterEqual", "LessThan", "LessEqual",
                  "EqualEqual", "NotEqual"}
    THEN Return(p, value)
    ELSE Fail(p, UnexpectedToken(Character("Comma"), Character(value)))

parse_column_reference(tokens, p) ==
    Try(consume_string(tokens, p), LAMBDA s1 :
    Try(is_a_character(tokens, s1.p, "Dot"), LAMBDA dot :
        IF ~dot.ret.val[1]
        THEN Return(dot.p, [column_name |-> s1.ret.val[1], table_identifier |-> <<>>])
        ELSE
    Try(consume_token(tokens, dot.p), LAMBDA c :
    Try(consume_string(tokens, c.p), LAMBDA s2 :
        Return(s2.p, [column_name |-> s2.ret.val[1],
                      table_identifier |-> <<s1.ret.val[1]>>])))))

parse_query_column(tokens, p) ==
    Try(parse_column_reference(tokens, p), LAMBDA column :
    Try(is_a_keyword(tokens, column.p, "As"), LAMBDA as :
        IF ~as.ret.val[1]
        THEN Return(as.p, [column |-> column.ret.val[1], as_name |-> <<>>])
        ELSE
    Try(consume_token(tokens, as.p), LAMBDA c :
    Try(consume_string(tokens, c.p), LAMBDA as_name :
        Return(as_name.p, [column |-> column.ret.val[1],
                           as_name |-> <<as_name.ret.val[1]>>])))))

\* the while loop of parse_string that collects the columns
RECURSIVE parse_columns(_, _, _)
parse_columns(tokens, p, columns) ==
    Try(IF Len(columns) = 0 THEN Return(p, TRUE)
        ELSE maybe_consume_a_character(tokens, p, "Comma"), LAMBDA more :
        IF ~more.ret.val[1] THEN Return(more.p, columns)
        ELSE
    Try(parse_query_column(tokens, more.p), LAMBDA column :
        parse_columns(tokens, column.p, Append(columns, column.ret.val[1]))))

\* the table identifier of parse_string: nothing, or the String after the
\* table name
parse_table_identifier(tokens, p) ==
    IF is_finished(tokens, p).ret THEN Return(p, <<>>)
    ELSE
    Try(is_string(tokens, p), LAMBDA str :
        IF ~str.ret.val[1] THEN Return(str.p, <<>>)
        ELSE
    Try(consume_string(tokens, str.p), LAMBDA s :
        Return(s.p, s.ret.val)))

\* the WHERE part of parse_string: nothing, or a Single comparison
parse_where(tokens, p) ==
    Try(maybe_consume_a_keyword(tokens, p, "Where"), LAMBDA w :
        IF ~w.ret.val[1] THEN Return(w.p, <<>>)
        ELSE
    Try(parse_column_reference(tokens, w.p), LAMBDA column :
    Try(consume_character(tokens, column.p), LAMBDA c :
    Try(Operator_try_from(c.p, c.ret.val[1]), LAMBDA op :
    Try(consume_string(tokens, op.p), LAMBDA value :
        Return(value.p, <<[column |-> column.ret.val[1], op |-> op.ret.val[1],
                           value |-> value.ret.val[1]]>>))))))

\* parse_string on the items of the query text
parse_tokens(tokens) ==
    Try(consume_a_keyword(tokens, TokenParser_new, "Select"), LAMBDA select :
    Try(parse_columns(tokens, select.p, <<>>), LAMBDA columns :
    Try(consume_a_keyword(tokens, columns.p, "From"), LAMBDA from :
    Try(consume_string(tokens, from.p), LAMBDA table_name :
    Try(parse_table_identifier(tokens, table_name.p), LAMBDA table_identifier :
    Try(IF is_finished(tokens, table_identifier.p).ret
        THEN Return(table_identifier.p, <<>>)
        ELSE parse_where(tokens, table_identifier.p), LAMBDA where_expression :
        Return(where_expression.p,
               [table_name |-> table_name.ret.val[1],
                table_identifier |-> table_identifier.ret.val[1],
                columns |-> columns.ret.val[1],
                where_expression |-> where_expression.ret.val[1]])))))))

\* RawSelectQuery::parse_string
RawSelectQuery_parse_string(query_text) ==
    parse_tokens(TokenParser_items(query_text)).ret

-----------------------------------------------------------------------------
(* The row store as a state machine.                                       *)

NoFile == [exists |-> FALSE, bytes |-> <<>>]
NoStore == [open |-> FALSE, table_name |-> "", id_counter |-> 0]

\* the bytes a scan of the store yields
StoreData == IF variant = "mem" THEN InMemoryByteStore_data(mem) ELSE FileByteStore_data(file)

\* the id the next insert would assign
StoreCounter == IF variant = "mem" THEN mem.id_counter ELSE get_id_counter(file).val

InsertsDone == Cardinality({i \in DOMAIN log : log[i].op = "insert"})

Snapshot == [id_counter |-> StoreCounter, data |-> StoreData]

StoreInit ==
    /\ variant \in {"mem", "file"}
    /\ desc \in Descriptors
    /\ mem = InMemoryByteStore_new(desc)
    /\ fbs = IF variant = "file" THEN FileByteStore_new(desc, NoFile).fbs ELSE NoStore
    /\ file = IF variant = "file" THEN FileByteStore_new(desc, NoFile).file ELSE NoFile
    /\ log = <<>>
    /\ last = <<>>
    /\ faults = 0
    /\ opens = 0
    /\ qres = <<>>

\* ByteStore::insert on the in-memory store
InsertMem ==
    /\ variant = "mem"
    /\ InsertsDone < MaxInserts
    /\ \E columns \in InsertArgs(desc) :
          LET r == InMemoryByteStore_insert(mem, desc, columns)
          IN /\ mem' = r.store
             /\ log' = Append(log, [op |-> "insert", ok |-> r.ret.ok, id |-> r.id,
                                     columns |-> columns])
             /\ last' = << [op |-> "insert", ret |-> r.ret, id |-> r.id, before |-> Snapshot] >>
    /\ qres' = <<>>
    /\ UNCHANGED <<variant, desc, fbs, file, faults, opens, parseVars, callVars, dbVars>>

\* ByteStore::insert on the file store, with at most one failing I/O call
InsertFile ==
    /\ variant = "file"
    /\ InsertsDone < MaxInserts
    /\ \E columns \in InsertArgs(desc) :
       \E fault \in {"none"} \cup (IF faults < MaxFaults THEN InsertFaults ELSE {}) :
       \E part \in (IF fault = "write_row" THEN PartialLengths(total_row_size(desc)) ELSE {0}) :
          LET r == FileByteStore_insert(file, desc, columns, fault, part)
          IN /\ file' = r.file
             /\ log' = Append(log, [op |-> "insert", ok |-> r.ret.ok, id |-> r.id,
                                     columns |-> columns])
             /\ last' = << [op |-> "insert", ret |-> r.ret, id |-> r.id, before |-> Snapshot] >>
             /\ faults' = IF fault = "none" THEN faults ELSE faults + 1
    /\ qres' = <<>>
    /\ UNCHANGED <<variant, desc, mem, fbs, opens, parseVars, callVars, dbVars>>

\* a new FileByteStore over the table file that already exists
Reopen ==
    /\ variant = "file"
    /\ opens < MaxReopens
    /\ LET r == FileByteStore_new(desc, file)
       IN /\ fbs' = r.fbs
          /\ file' = r.file
    /\ opens' = opens + 1
    /\ log' = Append(log, [op |-> "reopen", ok |-> TRUE, id |-> -1, columns |-> <<>>])
    /\ last' = << [op |-> "reopen", ret |-> Ok(<<>>), id |-> -1, before |-> Snapshot] >>
    /\ qres' = <<>>
    /\ UNCHANGED <<variant, desc, mem, faults, parseVars, callVars, dbVars>>

\* Database::query over the store, once per state of the store: the same
\* query of an unchanged store returns the same result
Query ==
    /\ qres = <<>>
    /\ \E q \in Queries(desc) :
          qres' = << [q |-> q, result |-> Database_query(q, StoreData)] >>
    /\ UNCHANGED <<variant, desc, mem, fbs, file, log, last, faults, opens, parseVars, callVars, dbVars>>

StoreNext == InsertMem \/ InsertFile \/ Reopen \/ Query

\* DatabaseDescriptor::new: the tables are taken as they are given
DatabaseDescriptor_new(name, tables) == Ok([db_name |-> name, tables |-> tables])

\* Database::new: an empty catalog and an empty HashMap of row stores; the
\* HashMap is the set of its <<key, value>> entries
Database_new(db_name) ==
    [descriptor |-> [db_name |-> db_name, tables |-> <<>>], table_stores |-> {}]

\* the names a table file can have
TableNames == {"books", "tokens", "notes"}

\* no call has been made on a DatabaseDescriptor or a Database
DbIdle ==
    /\ dbd = DatabaseDescriptor_new("my_db", <<>>).val
    /\ db = Database_new("my_db")
    /\ fs = [n \in TableNames |-> NoFile]
    /\ dblast = <<>>
    /\ dbops = 0

NoCall == [fn |-> "none"]

Init ==
    /\ StoreInit
    /\ query = <<>>
    /\ parsed = <<>>
    /\ iter = TokenIterator_new
    /\ items = <<>>
    /\ call = NoCall
    /\ result = <<>>
    /\ DbIdle

Next == StoreNext

Spec == Init /\ [][Next]_vars

-----------------------------------------------------------------------------
(* The resolver: SelectQuery::parse_query_string (table/query/mod.rs).     *)

\* the names of the catalog and the operators, with the texts that spell them
Spellings ==
    {<<"id", <<"i", "d">>>>, <<"author", <<"a", "u", "t", "h", "o", "r">>>>,
     <<"year", <<"y", "e", "a", "r">>>>, <<"us", <<"u", "s">>>>, <<"u", <<"u">>>>,
     <<"books", <<"b", "o", "o", "k", "s">>>>,
     <<"tokens", <<"t", "o", "k", "e", "n", "s">>>>,
     <<"==", <<"=", "=">>>>, <<"!=", <<"!", "=">>>>, <<">=", <<">", "=">>>>,
     <<">", <<">">>>>, <<"<=", <<"<", "=">>>>, <<"<", <<"<">>>>, <<"=", <<"=">>>>}

\* the &str a token of the query is; a token that spells none of the names
\* and operators equals none of them
StrOf(token) ==
    IF \E sp \in Spellings : sp[2] = token
    THEN (CHOOSE sp \in Spellings : sp[2] = token)[1]
    ELSE "?"

\* str::trim().split_whitespace(): the maximal runs of characters that are
\* not whitespace
RECURSIVE split_whitespace(_, _, _)
split_whitespace(s, word, out) ==
    IF s = <<>> THEN (IF word = <<>> THEN out ELSE Append(out, word))
    ELSE IF CharIs("whitespace", s[1])
    THEN split_whitespace(Tail(s), <<>>, IF word = <<>> THEN out ELSE Append(out, word))
    ELSE split_whitespace(Tail(s), Append(word, s[1]), out)

\* DatabaseDescriptor::table_with_name on the sequence of tables: the first
\* table with the name (Some), or <<>> (None)
table_with_name(tables, table_name) ==
    IF \E i \in DOMAIN tables : tables[i].table_name = table_name
    THEN << tables[CHOOSE i \in DOMAIN tables :
                      /\ tables[i].table_name = table_name
                      /\ \A j \in 1..(i - 1) : tables[j].table_name # table_name] >>
    ELSE <<>>

\* the database descriptor the resolver is called with
Catalog == <<Books, Tokens>>

\* a where_condition that looks the column up in every table of the catalog
where_condition_in_any_table(table, column, op, value) ==
    LET owners == {d \in Range(Catalog) : column_for_name(d, StrOf(column)) # 0}
    IN IF owners = {} THEN Err("Invalid where comparison: column does not exist")
       ELSE LET owner == IF table \in owners THEN table ELSE CHOOSE d \in owners : TRUE
                table_column == owner.columns[column_for_name(owner, StrOf(column))]
                where_comparison == parse_where_comparison(table_column.datatype, StrOf(op), value)
            IN IF ~where_comparison.ok THEN where_comparison
               ELSE Ok([column |-> table_column, comparison |-> where_comparison.val])

\* the closure mapped over a chunk of three tokens
where_condition(table, column, op, value) ==
    IF column_for_name(table, StrOf(column)) = 0
    THEN Err("Invalid where comparison: column does not exist")
    ELSE LET table_column == table.columns[column_for_name(table, StrOf(column))]
             where_comparison == parse_where_comparison(table_column.datatype, StrOf(op), value)
         IN IF ~where_comparison.ok THEN where_comparison
            ELSE Ok([column |-> table_column, comparison |-> where_comparison.val])

\* the part of parse_query_string after the table is found: rest is
\* tokens[(4 + select_columns.len())..], taken in chunks of three; a last
\* chunk of one or two tokens is indexed beyond its end
resolve_where(table, select_columns, rest) ==
    IF Len(rest) % 3 # 0 THEN Panic("index out of bounds")
    ELSE LET where_conditions ==
                 [i \in 1..(Len(rest) \div 3) |->
                     where_condition(table, rest[3 * i - 2], rest[3 * i - 1], rest[3 * i])]
         IN IF \E i \in DOMAIN where_conditions : ~where_conditions[i].ok
            THEN where_conditions[CHOOSE i \in DOMAIN where_conditions :
                                     /\ ~where_conditions[i].ok
                                     /\ \A j \in 1..(i - 1) : where_conditions[j].ok]
            ELSE Ok([table |-> table,
                     columns |-> select_columns,
                     where_predicate |->
                         << [i \in DOMAIN where_conditions |-> where_conditions[i].val] >>])

\* the part of parse_query_string after the table name is read
resolve_in_table(tokens, select_column_names, table) ==
    IF \E i \in DOMAIN select_column_names :
          column_for_name(table, StrOf(select_column_names[i])) = 0
    THEN Err("Missing column!")
    ELSE LET select_columns ==
                 [i \in DOMAIN select_column_names |->
                     table.columns[column_for_name(table, StrOf(select_column_names[i]))]]
         IN IF Len(select_columns) = Len(tokens) - 1
            THEN Ok([table |-> table, columns |-> select_columns, where_predicate |-> <<>>])
            ELSE IF 4 + Len(select_columns) > Len(tokens)
            THEN Panic("range start index out of range for slice")
            ELSE resolve_where(table, select_columns,
                               SubSeq(tokens, 5 + Len(select_columns), Len(tokens)))

\* the number of tokens before the first "from"
columns_ending_idx(tokens) ==
    IF \E i \in DOMAIN tokens : tokens[i] = <<"f", "r", "o", "m">>
    THEN (CHOOSE i \in DOMAIN tokens :
             /\ tokens[i] = <<"f", "r", "o", "m">>
             /\ \A j \in 1..(i - 1) : tokens[j] # <<"f", "r", "o", "m">>) - 1
    ELSE Len(tokens)

\* SelectQuery::parse_query_string over the tables of the database descriptor
parse_query_string(query_text, tables) ==
    LET tokens == split_whitespace(query_text, <<>>, <<>>)
    IN IF tokens = <<>> THEN Err("Query cannot be empty")
       ELSE IF tokens[1] # <<"s", "e", "l", "e", "c", "t">>
       THEN Err("invalid query: the only allowed query command is 'select'")
       ELSE IF columns_ending_idx(tokens) = Len(tokens)
       THEN Err("Invalid query: missing 'from'")
       ELSE IF columns_ending_idx(tokens) + 2 > Len(tokens)
       THEN Panic("called Option::unwrap() on a None value")
       ELSE IF table_with_name(tables, StrOf(tokens[columns_ending_idx(tokens) + 2])) = <<>>
       THEN Err("Invalid query: no table exists")
       ELSE resolve_in_table(tokens,
                             SubSeq(tokens, 2, columns_ending_idx(tokens)),
                             table_with_name(tables,
                                 StrOf(tokens[columns_ending_idx(tokens) + 2]))[1])

-----------------------------------------------------------------------------
(* The lexer and the parser as a state machine.                            *)

\* the words query texts are made of
Words ==
    [select |-> <<"s", "e", "l", "e", "c", "t">>,
     from   |-> <<"f", "r", "o", "m">>,
     where  |-> <<"w", "h", "e", "r", "e">>,
     as     |-> <<"a", "s">>,
     a      |-> <<"a">>,
     b      |-> <<"b">>,
     x      |-> <<"x">>,
     year   |-> <<"y", "e", "a", "r">>,
     books  |-> <<"b", "o", "o", "k", "s">>,
     n1930  |-> <<"1", "9", "3", "0">>,
     qx     |-> <<"\"", "x", "\"">>,
     comma  |-> <<",">>,
     dot    |-> <<".">>,
     ge     |-> <<">", "=">>,
     gt     |-> <<">">>,
     le     |-> <<"<", "=">>,
     lt     |-> <<"<">>,
     eq     |-> <<"=", "=">>,
     ne     |-> <<"!", "=">>,
     assign |-> <<"=">>,
     bang   |-> <<"!">>,
     id     |-> <<"i", "d">>,
     author |-> <<"a", "u", "t", "h", "o", "r">>,
     u      |-> <<"u">>,
     tokens |-> <<"t", "o", "k", "e", "n", "s">>,
     nonesuch |-> <<"n", "o", "n", "e", "s", "u", "c", "h">>]

\* the words of ws, one space between two words
RECURSIVE JoinWords(_)
JoinWords(ws) ==
    IF ws = <<>> THEN <<>>
    ELSE IF Len(ws) = 1 THEN Words[ws[1]]
    ELSE Words[ws[1]] \o <<" ">> \o JoinWords(Tail(ws))

SelectParts ==
    {<<"select", "a">>, <<"select", "a", "comma", "year">>,
     <<"select", "b", "dot", "a", "as", "x">>, <<"select">>, <<"a">>,
     <<"select", "a", "comma">>}

FromParts ==
    {<<"from", "books">>, <<"from", "books", "b">>, <<"from">>, <<>>,
     <<"from", "books", "b", "x">>, <<"from", "books", "comma">>}

ComparatorWords == {"ge", "gt", "le", "lt", "eq", "ne"}
OperatorWords == ComparatorWords \cup {"assign", "bang", "comma"}
StringValueWords == {"x", "qx"}
ValueWords == StringValueWords \cup {"n1930"}

WhereParts ==
    {<<>>, <<"where">>, <<"where", "year">>,
     <<"where", "year", "ge", "x", "x">>, <<"where", "year", "ge", "x", "assign">>}
    \cup {<<"where", "year", op>> : op \in OperatorWords}
    \cup {<<"where", "year", op, v>> : op \in OperatorWords, v \in ValueWords}

\* texts that put the lexer at a token boundary of each kind: names with an
\* underscore or a digit, comparators with and without a space after them,
\* and quoted strings that do not end well
LexTexts ==
    {<<"y", "e", "a", "r", "_", "p">>, <<"c", "o", "l", "1">>, <<"a", "s", "k">>,
     <<">", "5">>, <<"<", "x">>, <<">">>, <<"<">>, <<">", " ", "5">>,
     <<">", "=", "5">>, <<"<", "=", "x">>, <<"=", "=", "x">>, <<"!", "=", "x">>,
     <<"\"", "a", "\\", "x", "\"">>, <<"\"", "a", "b">>, <<"_", "a">>}

\* the query texts handed to the lexer and the parser
QueryTexts ==
    {JoinWords(s \o f \o w) : s \in SelectParts, f \in FromParts, w \in WhereParts}
    \cup LexTexts

ParseInit ==
    /\ StoreInit
    /\ variant = "mem"
    /\ desc = Books
    /\ query \in QueryTexts
    /\ parsed = <<>>
    /\ iter = TokenIterator_new
    /\ items = <<>>
    /\ call = NoCall
    /\ result = <<>>
    /\ DbIdle

\* one call of Iterator::next on a TokenIterator over the query text
LexNext ==
    /\ Len(items) < MaxLexCalls
    /\ LET r == TokenIterator_next(query, iter)
       IN /\ iter' = r.it
          /\ items' = Append(items, r.item)
    /\ UNCHANGED <<storeVars, callVars, dbVars, query, parsed>>

\* RawSelectQuery::parse_string on the query text
Parse ==
    /\ parsed = <<>>
    /\ parsed' = <<RawSelectQuery_parse_string(query)>>
    /\ UNCHANGED <<storeVars, callVars, dbVars, query, iter, items>>

ParseNext == LexNext \/ Parse

ParseSpec == ParseInit /\ [][ParseNext]_vars

-----------------------------------------------------------------------------
(* The functions of the schema and the resolver, one call per run.         *)

ColumnDataTypes == {SerialId, Boolean, Int32, UInt32, Int64, UInt64, UuidV4, Byte(4)}

\* the operator texts of a WHERE condition, one of them no operator
OperatorTexts == EqOperators \cup OrdOperators \cup {"="}

\* value texts: numbers in and out of range, booleans, uuids, short texts
Text32Hex == [i \in 1..32 |-> HexChars[((i - 1) % 16) + 1]]
ValueTexts ==
    {<<"5">>, <<"-", "5">>, <<"+", "5">>, <<"0", "0", "7">>, Text1932,
     <<"4", "2", "9", "4", "9", "6", "7", "2", "9", "6">>,
     TextTrue, <<"f", "a", "l", "s", "e">>, TextUuid, Text32Hex,
     <<"0">>, <<"-", "0">>,
     <<>>, <<"a">>, <<"a", "b">>, <<"a", "b", "c">>, <<"a", "b", "c", "d">>}

WhereComparisonCalls ==
    {[fn |-> "parse_where_comparison", t |-> t, op |-> op, value |-> v] :
        t \in ColumnDataTypes, op \in OperatorTexts, v \in ValueTexts}

ResolverSelectParts ==
    {<<"select", "id">>, <<"select", "year", "id">>, <<"select">>,
     <<"select", "nonesuch">>, <<"select", "id", "nonesuch">>, <<"select", "u">>,
     <<"id">>, <<>>}

ResolverFromParts ==
    {<<"from", "books">>, <<"from", "tokens">>, <<"from", "nonesuch">>, <<"from">>, <<>>}

ResolverWhereParts ==
    {<<>>, <<"where">>,
     <<"where", "year", "ge", "n1930">>,
     <<"where", "year", "ge">>,
     <<"where", "year", "ge", "x">>,
     <<"where", "author", "gt", "a">>,
     <<"where", "nonesuch", "ge", "n1930">>,
     <<"where", "nonesuch">>,
     <<"where", "year", "eq", "n1930", "id", "lt", "n1930">>,
     <<"where", "year", "ge", "n1930", "nonesuch", "eq", "x">>,
     <<"where", "year", "ge", "n1930", "nonesuch">>,
     <<"where", "nonesuch", "ge", "n1930", "year">>}

ResolverCalls ==
    {[fn |-> "parse_query_string", query |-> JoinWords(s \o f \o w)] :
        s \in ResolverSelectParts, f \in ResolverFromParts, w \in ResolverWhereParts}

\* argument lists with a value under the name of the SerialId column, with
\* an unknown name first, and with two values under one name
MoreInsertArgs ==
    { <<Arg("id", <<"5">>), Arg("year", Text1932)>>,
      <<Arg("nonesuch", <<"x">>), Arg("us", TextTrue), Arg("id", <<"x">>)>>,
      <<Arg("year", Text1917), Arg("year", Text1932), Arg("author", <<"a">>)>>,
      <<Arg("us", <<"f", "a", "l", "s", "e">>), Arg("year", <<"-", "5">>)>> }

InsertionBytesCalls ==
    {[fn |-> "get_insertion_bytes", d |-> d, id |-> id, columns |-> columns] :
        d \in Descriptors, id \in 0..1,
        columns \in InsertArgs(Books) \cup InsertArgs(Tokens) \cup MoreInsertArgs}

ParseStringCalls ==
    {[fn |-> "parse_string", t |-> t, value |-> v] :
        t \in ColumnDataTypes \cup {Byte(n) : n \in 1..MaxByteWidth}, v \in ValueTexts}

ToNativeTypeCalls ==
    {[fn |-> "to_native_type", buf |-> [i \in 1..n |-> (b + i) % 256], width |-> width] :
        n \in 0..MaxBufferLen, b \in {0, 127, 250}, width \in {4, 8}}

DeclaredColumns ==
    UNION {[1..n -> {<<name, t>> : name \in {"id", "a"},
                                  t \in {SerialId, Int32, Byte(4), UuidV4}}] :
              n \in 0..MaxColumns}

NewTableCalls ==
    {[fn |-> "TableDescriptor_new", name |-> "t", columns |-> columns] :
        columns \in DeclaredColumns}

Calls ==
    WhereComparisonCalls \cup ResolverCalls \cup InsertionBytesCalls \cup ParseStringCalls
    \cup ToNativeTypeCalls
    \cup NewTableCalls

CallInit ==
    /\ StoreInit
    /\ variant = "mem"
    /\ desc = Books
    /\ query = <<>>
    /\ parsed = <<>>
    /\ iter = TokenIterator_new
    /\ items = <<>>
    /\ call \in Calls
    /\ result = <<>>
    /\ DbIdle

\* ColumnDataType::parse_where_comparison
CallParseWhereComparison ==
    /\ call.fn = "parse_where_comparison"
    /\ result = <<>>
    /\ result' = <<parse_where_comparison(call.t, call.op, call.value)>>
    /\ UNCHANGED <<storeVars, parseVars, call, dbVars>>

\* SelectQuery::parse_query_string
CallParseQueryString ==
    /\ call.fn = "parse_query_string"
    /\ result = <<>>
    /\ result' = <<parse_query_string(call.query, Catalog)>>
    /\ UNCHANGED <<storeVars, parseVars, call, dbVars>>

\* TableDescriptor::get_insertion_bytes
CallGetInsertionBytes ==
    /\ call.fn = "get_insertion_bytes"
    /\ result = <<>>
    /\ result' = <<get_insertion_bytes(call.d, call.id, call.columns)>>
    /\ UNCHANGED <<storeVars, parseVars, call, dbVars>>

\* ColumnDataType::parse_string
CallParseString ==
    /\ call.fn = "parse_string"
    /\ result = <<>>
    /\ result' = <<parse_string(call.t, call.value)>>
    /\ UNCHANGED <<storeVars, parseVars, call, dbVars>>

\* ColumnDataType::parse_bytes on the bytes parse_string returned
CallParseBytes ==
    /\ call.fn = "parse_string"
    /\ Len(result) = 1
    /\ result[1].ok
    /\ result' = Append(result, parse_bytes(call.t, result[1].val))
    /\ UNCHANGED <<storeVars, parseVars, call, dbVars>>

\* ToNativeType::to_native_type for [u8], at the width of u32/i32 or u64/i64
CallToNativeType ==
    /\ call.fn = "to_native_type"
    /\ result = <<>>
    /\ result' = <<to_native_type(call.buf, call.width)>>
    /\ UNCHANGED <<storeVars, parseVars, call, dbVars>>

\* TableDescriptor::new
CallTableDescriptorNew ==
    /\ call.fn = "TableDescriptor_new"
    /\ result = <<>>
    /\ result' = <<TableDescriptor_new(call.name, call.columns)>>
    /\ UNCHANGED <<storeVars, parseVars, call, dbVars>>

CallNext ==
    \/ CallParseWhereComparison
    \/ CallParseQueryString
    \/ CallGetInsertionBytes
    \/ CallParseString
    \/ CallParseBytes
    \/ CallToNativeType
    \/ CallTableDescriptorNew

CallSpec == CallInit /\ [][CallNext]_vars

-----------------------------------------------------------------------------
(* The catalog and the Database: table/schema.rs and table/db.rs.          *)

\* a DatabaseDescriptor::add_table that appends whatever the name
DatabaseDescriptor_add_table_unchecked(dd, table) ==
    [dd |-> [dd EXCEPT !.tables = Append(@, table)], ret |-> Ok(<<>>)]

\* DatabaseDescriptor::add_table: the descriptor after the call and what the
\* call returns
DatabaseDescriptor_add_table(dd, table) ==
    IF \E i \in DOMAIN dd.tables : dd.tables[i].table_name = table.table_name
    THEN [dd |-> dd, ret |-> Err("Cannot add table with duplicate name")]
    ELSE [dd |-> [dd EXCEPT !.tables = Append(@, table)], ret |-> Ok(<<>>)]

\* HashMap::insert and HashMap::get on the set of entries
HashMap_insert(map, key, value) == {e \in map : e[1] # key} \cup {<<key, value>>}
HashMap_get(map, key) ==
    IF \E e \in map : e[1] = key THEN <<(CHOOSE e \in map : e[1] = key)[2]>> ELSE <<>>

\* Database::add_table: the row store is made and put into the map before
\* the catalog is asked to add the table
Database_add_table(database, files, descriptor) ==
    LET n == descriptor.table_name
        made == FileByteStore_new(descriptor, files[n])
        added == DatabaseDescriptor_add_table(database.descriptor, descriptor)
    IN [db |-> [descriptor |-> added.dd,
                table_stores |-> HashMap_insert(database.table_stores, n, made.fbs)],
        fs |-> [files EXCEPT ![n] = made.file],
        ret |-> added.ret]

\* a Database::insert_columns that falls back on the first table of the
\* catalog when the name is unknown
Database_insert_columns_or_first(database, files, table_name, columns) ==
    LET tables == database.descriptor.tables
        found == table_with_name(tables, table_name)
        td == IF found # <<>> THEN found
              ELSE IF tables # <<>> THEN <<tables[1]>> ELSE <<>>
    IN IF td = <<>>
       THEN [db |-> database, fs |-> files, ret |-> Err("No table exists")]
       ELSE LET r == FileByteStore_insert(files[td[1].table_name], td[1], columns, "none", 0)
            IN [db |-> database,
                fs |-> [files EXCEPT ![td[1].table_name] = r.file],
                ret |-> r.ret]

\* Database::insert_columns
Database_insert_columns(database, files, table_name, columns) ==
    LET table_descriptor == table_with_name(database.descriptor.tables, table_name)
    IN IF table_descriptor = <<>>
       THEN [db |-> database, fs |-> files, ret |-> Err("No table exists")]
       ELSE IF HashMap_get(database.table_stores, table_name) = <<>>
       THEN [db |-> database, fs |-> files,
             ret |-> Panic("Table backig store should be present here")]
       ELSE LET r == FileByteStore_insert(files[table_name], table_descriptor[1],
                                          columns, "none", 0)
            IN [db |-> database,
                fs |-> [files EXCEPT ![table_name] = r.file],
                ret |-> r.ret]

\* a second table named "books", with other columns
Shelf == TableDescriptor_new("books", << <<"id", SerialId>>, <<"n", Int32>> >>).val

\* a table with a Byte(0) column before its last column
Notes ==
    TableDescriptor_new("notes",
        << <<"id", SerialId>>, <<"z", Byte(0)>>, <<"year", Int32>> >>).val

\* the tables handed to DatabaseDescriptor::new and to add_table
DbTables == {Books, Tokens, Shelf, Notes}

\* the arguments of insert_columns
DbInsertNames == TableNames \cup {"nonesuch"}
DbInsertArgs ==
    {<<>>, <<Arg("year", Text1932)>>, <<Arg("author", <<"a", "b">>), Arg("year", <<"6", "5">>)>>}

DbInit ==
    /\ StoreInit
    /\ variant = "mem"
    /\ desc = Books
    /\ query = <<>>
    /\ parsed = <<>>
    /\ iter = TokenIterator_new
    /\ items = <<>>
    /\ call = NoCall
    /\ result = <<>>
    /\ dbd \in {DatabaseDescriptor_new("my_db", tables).val :
                   tables \in UNION {[1..n -> DbTables] : n \in 0..2}}
    /\ db = Database_new("my_db")
    /\ fs = [n \in TableNames |-> NoFile]
    /\ dblast = <<>>
    /\ dbops = 0

DbBefore == [dbd |-> dbd, db |-> db, fs |-> fs]

\* DatabaseDescriptor::add_table on the descriptor on its own
DescriptorAddTable ==
    /\ dbops < MaxDbOps
    /\ \E table \in DbTables :
          LET r == DatabaseDescriptor_add_table(dbd, table)
          IN /\ dbd' = r.dd
             /\ dblast' = << [op |-> "DatabaseDescriptor::add_table",
                              name |-> table.table_name, ret |-> r.ret,
                              before |-> DbBefore] >>
    /\ dbops' = dbops + 1
    /\ UNCHANGED <<storeVars, parseVars, callVars, db, fs>>

\* Database::add_table
DatabaseAddTable ==
    /\ dbops < MaxDbOps
    /\ \E table \in DbTables :
          LET r == Database_add_table(db, fs, table)
          IN /\ db' = r.db
             /\ fs' = r.fs
             /\ dblast' = << [op |-> "Database::add_table",
                              name |-> table.table_name, ret |-> r.ret,
                              before |-> DbBefore] >>
    /\ dbops' = dbops + 1
    /\ UNCHANGED <<storeVars, parseVars, callVars, dbd>>

\* Database::insert_columns
DatabaseInsertColumns ==
    /\ dbops < MaxDbOps
    /\ \E table_name \in DbInsertNames, columns \in DbInsertArgs :
          LET r == Database_insert_columns(db, fs, table_name, columns)
          IN /\ db' = r.db
             /\ fs' = r.fs
             /\ dblast' = << [op |-> "Database::insert_columns",
                              name |-> table_name, ret |-> r.ret,
                              before |-> DbBefore] >>
    /\ dbops' = dbops + 1
    /\ UNCHANGED <<storeVars, parseVars, callVars, dbd>>

DbNext == DescriptorAddTable \/ DatabaseAddTable \/ DatabaseInsertColumns

DbSpec == DbInit /\ [][DbNext]_vars

-----------------------------------------------------------------------------
(* Properties of the row store and the executor.                           *)

RowSize == total_row_size(desc)

\* whether the stored byte stream is a whole number of rows
WholeRows == Len(StoreData) % RowSize = 0

\* the complete rows of the stored byte stream, in order
StoredRows ==
    [i \in 1..(Len(StoreData) \div RowSize) |->
        Slice(StoreData, (i - 1) * RowSize, i * RowSize)]

\* the serial id a row carries, as a word
RowId(row) == Slice(row, id_column(desc).offset, id_column(desc).offset + 8)

InsertIndexes == {i \in DOMAIN log : log[i].op = "insert"}
AllInsertsOk == \A i \in InsertIndexes : log[i].ok

LastInsert == last # <<>> /\ last[1].op = "insert"

\* C1: for a file store over a table file that did not exist before, after
\* n inserts that all returned Ok a scan yields exactly n rows, the i-th
\* (from 0) being the row of the i-th insert with serial id i.
C1_FreshFileScanInOrder ==
    (variant = "file" /\ opens = 0 /\ AllInsertsOk) =>
        /\ Len(StoreData) = Len(log) * RowSize
        /\ \A i \in DOMAIN log :
              StoredRows[i] = get_insertion_bytes(desc, i - 1, log[i].columns).val

\* C1 holds as long as no I/O call has failed.
FreshFileScanInOrderWithoutFaults == faults = 0 => C1_FreshFileScanInOrder

\* C2: an insert that returned an error left the stored bytes and the id
\* counter as they were, and an insert that returned Ok appended exactly one
\* row of row_size bytes and advanced the id counter by exactly one.
C2_InsertAllOrNothing ==
    LastInsert =>
        IF last[1].ret.ok
        THEN /\ Len(StoreData) = Len(last[1].before.data) + RowSize
             /\ SubSeq(StoreData, 1, Len(last[1].before.data)) = last[1].before.data
             /\ StoreCounter = last[1].before.id_counter + 1
        ELSE Snapshot = last[1].before

\* C3: on the file store, after k inserts that returned Ok and then a reopen,
\* the next insert that returns Ok stores a row with id k and leaves k + 1,
\* little-endian, in bytes 0..8 of the file.
C3_ReopenContinuesIds ==
    LET n == Len(log) IN
    (/\ variant = "file"
     /\ n >= 2
     /\ log[n].op = "insert" /\ log[n].ok
     /\ log[n - 1].op = "reopen"
     /\ \A i \in 1..(n - 2) : log[i].op = "insert" /\ log[i].ok) =>
        /\ log[n].id = n - 2
        /\ RowId(StoredRows[Len(StoredRows)]) = to_le_bytes(n - 2, 8)
        /\ Slice(file.bytes, 0, 8) = to_le_bytes(n - 1, 8)

\* C3 holds as long as no I/O call has failed.
ReopenContinuesIdsWithoutFaults == faults = 0 => C3_ReopenContinuesIds

\* C4: no two stored rows carry the same serial id, whatever inserts
\* succeeded or failed and however often the file was reopened.
C4_IdsNeverReused ==
    WholeRows =>
        \A i, j \in DOMAIN StoredRows :
            i # j => RowId(StoredRows[i]) # RowId(StoredRows[j])

\* C5: the first row an in-memory store holds has serial id 0, and its n-th
\* row has serial id n - 1.
C5_InMemoryIdsFromZero ==
    variant = "mem" =>
        \A i \in DOMAIN StoredRows : RowId(StoredRows[i]) = to_le_bytes(i - 1, 8)

\* C6: on the file store, after an insert that returned Ok the file size
\* less the 64-byte header is a multiple of the row size.
C6_FileBodyWholeRows ==
    (variant = "file" /\ LastInsert /\ last[1].ret.ok) =>
        (Len(file.bytes) - HeaderSize) % RowSize = 0

\* C6 holds as long as no I/O call has failed.
FileBodyWholeRowsWithoutFaults == faults = 0 => C6_FileBodyWholeRows

\* whether every WHERE condition of q holds on a row
RowMatches(q, row) ==
    \/ q.where_predicate = <<>>
    \/ \A k \in DOMAIN q.where_predicate[1] :
          LET wc == q.where_predicate[1][k]
          IN is_true(wc.comparison, Slice(row, wc.column.offset, Len(row))).val

\* the result row of q for a stored row
ResultRow(q, row) ==
    [id |-> RowId(row),
     columns |-> [k \in DOMAIN q.columns |->
                     <<q.columns[k].name,
                       parse_bytes(q.columns[k].datatype,
                                   Slice(row, q.columns[k].offset, Len(row))).val>>]]

\* the result rows of q for a sequence of stored rows, in order
RECURSIVE ExpectedResult(_, _)
ExpectedResult(q, rows) ==
    IF rows = <<>> THEN <<>>
    ELSE (IF RowMatches(q, rows[1]) THEN <<ResultRow(q, rows[1])>> ELSE <<>>)
         \o ExpectedResult(q, Tail(rows))

\* C7: a query of a store that holds whole rows returns exactly the rows on
\* which every WHERE condition holds, in insertion order, each with its
\* serial id and its projected columns decoded at the column offsets.
C7_QueryReturnsMatchingRows ==
    (qres # <<>> /\ WholeRows) =>
        /\ qres[1].result.status = "returned"
        /\ qres[1].result.out = ExpectedResult(qres[1].q, StoredRows)

\* What the query returns, when it returns, is the matching rows.
QueryResultWhenReturned ==
    (qres # <<>> /\ qres[1].result.status = "returned") =>
        qres[1].result.out = ExpectedResult(qres[1].q, StoredRows)

\* C8: a query of a store that holds exactly n whole rows processes all n
\* rows and returns.
C8_QueryReadsEveryWholeRow ==
    (qres # <<>> /\ WholeRows) =>
        /\ qres[1].result.status = "returned"
        /\ qres[1].result.rows = Len(StoredRows)

\* C9: a query of a store that ends in a partial row hands a CorruptStore
\* error back to its caller: it neither aborts nor returns rows.
C9_QueryReportsCorruptStore ==
    (qres # <<>> /\ ~WholeRows) => qres[1].result.status = "CorruptStore"

\* A query of a store that ends in a partial row never returns.
QueryOfCorruptStoreNeverReturns ==
    (qres # <<>> /\ ~WholeRows) => qres[1].result.status = "panicked"

-----------------------------------------------------------------------------
(* Properties of the parser.                                               *)

\* the select lists and table references the grammar accepts
GoodSelectParts ==
    {<<"select", "a">>, <<"select", "a", "comma", "year">>,
     <<"select", "b", "dot", "a", "as", "x">>}
GoodFromParts == {<<"from", "books">>, <<"from", "books", "b">>}

\* the operator a comparator word stands for, and the text of a value word
OperatorName ==
    [ge |-> "GreaterEqual", gt |-> "GreaterThan", le |-> "LessEqual",
     lt |-> "LessThan", eq |-> "EqualEqual", ne |-> "NotEqual"]
ValueText == [x |-> <<"x">>, qx |-> <<"x">>, n1930 |-> <<"1", "9", "3", "0">>]

\* a query that ends in `where year <op> <value>`, the value among values,
\* parses to a query with the single comparison of year, op and the value's
\* text
WhereComparisonAccepted(values) ==
    \A s \in GoodSelectParts, f \in GoodFromParts, op \in ComparatorWords, v \in values :
        (parsed # <<>> /\ query = JoinWords(s \o f \o <<"where", "year", op, v>>)) =>
            /\ parsed[1].ok
            /\ parsed[1].val[1].where_expression =
                   <<[column |-> [column_name |-> Words.year, table_identifier |-> <<>>],
                      op |-> OperatorName[op],
                      value |-> ValueText[v]]>>

\* C10: the parser accepts a WHERE comparison whose value is a Number token
\* (`where year >= 1930`) as well as one whose value is a String token, and
\* gives the single comparison whose value is the token's text.
C10_WhereValueNumberOrString == WhereComparisonAccepted(ValueWords)

\* A WHERE comparison whose value is a String token is accepted.
WhereValueStringAccepted == WhereComparisonAccepted(StringValueWords)

-----------------------------------------------------------------------------
(* Properties of the lexer.                                                *)

IsIdentChar(c) == c \in Range(LowerChars) \cup Range(DigitChars) \cup {"_"}

\* where the maximal run of alphanumeric or underscore characters from
\* index i of s ends
RECURSIVE RunEnd(_, _)
RunEnd(s, i) == IF i < Len(s) /\ IsIdentChar(s[i + 1]) THEN RunEnd(s, i + 1) ELSE i

\* the token for a run: the keyword it spells, or String(run)
RunToken(run) ==
    IF KeywordToken_try_from(run) # <<>>
    THEN Keyword(KeywordToken_try_from(run)[1])
    ELSE String(run)

StartsAlphabetic == query # <<>> /\ query[1] \in Range(LowerChars)

\* C11: on a text that starts with an alphabetic character the first item
\* the lexer yields is the one token for the maximal run of alphanumeric or
\* underscore characters: the keyword the run spells, or String(run).
C11_NameIsOneToken ==
    (Len(items) >= 1 /\ StartsAlphabetic) =>
        items[1] = <<OkOf(RunToken(Slice(query, 0, RunEnd(query, 0))))>>

\* The first item on a text that starts with an alphabetic character is the
\* token for the maximal run of alphabetic characters.
AlphabeticRunIsOneToken ==
    (Len(items) >= 1 /\ StartsAlphabetic) =>
        /\ items[1] = <<OkOf(RunToken(Slice(query, 0, advance_while(query, 0, "alphabetic"))))>>
        /\ (Len(items) = 1 => iter.index = advance_while(query, 0, "alphabetic"))

StartsComparator == query # <<>> /\ query[1] \in {"=", "!", "<", ">"}

TwoCharacterName(c) ==
    CASE c = "=" -> "EqualEqual"
      [] c = "!" -> "NotEqual"
      [] c = "<" -> "LessEqual"
      [] c = ">" -> "GreaterEqual"

\* C12: on a text that starts with ==, !=, <= or >= the lexer yields that
\* comparator and has consumed two characters; on one that starts with a <
\* or > not followed by = (the text may end there) it yields LessThan or
\* GreaterThan and has consumed that one character only.
C12_ComparatorWidth ==
    (Len(items) = 1 /\ StartsComparator) =>
        IF Len(query) >= 2 /\ query[2] = "="
        THEN /\ items[1] = <<OkOf(Character(TwoCharacterName(query[1])))>>
             /\ iter.index = 2
        ELSE query[1] \in {"<", ">"} =>
                /\ items[1] = <<OkOf(Character(IF query[1] = "<" THEN "LessThan"
                                               ELSE "GreaterThan"))>>
                /\ iter.index = 1

\* The two-character comparators are lexed as the claim says.
TwoCharacterComparatorWidth ==
    (Len(items) = 1 /\ StartsComparator /\ Len(query) >= 2 /\ query[2] = "=") =>
        /\ items[1] = <<OkOf(Character(TwoCharacterName(query[1])))>>
        /\ iter.index = 2

IsError(item) == item # <<>> /\ ~item[1].ok

\* C13: once next() has yielded an error, every later call yields the end
\* of the sequence.
C13_ErrorEndsSequence ==
    \A i, j \in DOMAIN items : (i < j /\ IsError(items[i])) => items[j] = <<>>

\* Once next() has yielded UnexpectedCharacter, every later call yields the
\* end of the sequence.
UnexpectedCharacterEndsSequence ==
    \A i, j \in DOMAIN items :
        (i < j /\ IsError(items[i]) /\ items[i][1].err[1].name = "UnexpectedCharacter")
            => items[j] = <<>>

-----------------------------------------------------------------------------
(* Properties of the parser: the end of the input.                         *)

\* C14: a parse that succeeds has consumed the whole input: no token and no
\* lexing error is left after what the parser took.
C14_ParseConsumesWholeInput ==
    (parsed # <<>> /\ parsed[1].ok) =>
        parse_tokens(TokenParser_items(query)).p = Len(TokenParser_items(query))

\* query texts that end before a production is complete; ops are the
\* comparators a text may end with
TruncatedQueries(ops) ==
    {<<"select">>, <<"select", "a", "comma">>}
    \cup GoodSelectParts
    \cup {s \o <<"from">> : s \in GoodSelectParts}
    \cup {s \o f \o w : s \in GoodSelectParts, f \in GoodFromParts,
                        w \in {<<"where">>, <<"where", "year">>}}
    \cup {s \o f \o <<"where", "year", op>> :
              s \in GoodSelectParts, f \in GoodFromParts, op \in ops}

EndOfInputReported(ops) ==
    \A ws \in TruncatedQueries(ops) :
        (parsed # <<>> /\ query = JoinWords(ws)) => parsed[1] = ErrOf(UnexpectedEndOfInput)

\* C15: a query text that ends before a production is complete (after
\* select, inside the column list, after from, after where, after the column
\* of the comparison, after the comparator, a lone > or < included) fails to
\* parse with the parser's UnexpectedEndOfInput.
C15_EndOfInputReported == EndOfInputReported(ComparatorWords)

\* C15 for the texts that do not end in a lone > or <.
EndOfInputReportedBeforeLoneComparator == EndOfInputReported(ComparatorWords \ {"gt", "lt"})

-----------------------------------------------------------------------------
(* Properties of the WHERE comparison, the resolver and the row codec.     *)

IntegerTags == {"SerialId", "Int32", "UInt32", "Int64", "UInt64"}

\* whether a value text parses for a column type in a WHERE comparison
ValueParses(t, value) ==
    CASE t.tag = "Boolean" -> value \in {TextTrue, <<"f", "a", "l", "s", "e">>}
      [] t.tag \in IntegerTags -> parse_int(value, IsSigned(t), size_in_bytes(t)).ok
      [] t.tag = "UuidV4" -> uuid_parse(value).ok
      [] t.tag = "Byte" -> TRUE

WhereComparisonCalled ==
    /\ call.fn = "parse_where_comparison"
    /\ result # <<>>
    /\ call.op \in EqOperators \cup OrdOperators
    /\ ValueParses(call.t, call.value)

\* C16: with a value that parses for the column type, parse_where_comparison
\* succeeds for == and != on every type and for <, <=, >, >= on the integer
\* types and SerialId, and returns an error for <, <=, >, >= on Boolean,
\* UuidV4 and Byte(n).
C16_OrderingOnlyOnIntegers ==
    WhereComparisonCalled =>
        (result[1].ok <=> (call.op \in EqOperators \/ call.t.tag \in IntegerTags))

\* an ordering operator with a value that parses was rejected on a Byte(n)
\* column
C16_OrderingRejectedOnByte ==
    /\ WhereComparisonCalled
    /\ call.op \in OrdOperators
    /\ call.t.tag = "Byte"
    /\ ~result[1].ok

-----------------------------------------------------------------------------
(* Properties of the resolver.                                             *)

\* a call of parse_query_string has returned or panicked
Resolved == call.fn = "parse_query_string" /\ result # <<>>

QueryTokens == split_whitespace(call.query, <<>>, <<>>)

\* the table the query names, the token after the first "from": <<name>>,
\* or <<>> where the query names none
NamedTable ==
    IF columns_ending_idx(QueryTokens) + 2 <= Len(QueryTokens)
    THEN <<StrOf(QueryTokens[columns_ending_idx(QueryTokens) + 2])>>
    ELSE <<>>

\* the columns the query names: the tokens between the first token and
\* "from", and the first token of each condition after the table name and
\* the word that follows it
NamedColumns ==
    {StrOf(QueryTokens[i]) : i \in 2..columns_ending_idx(QueryTokens)}
    \cup {StrOf(QueryTokens[i]) :
             i \in {j \in (columns_ending_idx(QueryTokens) + 4)..Len(QueryTokens) :
                       (j - (columns_ending_idx(QueryTokens) + 4)) % 3 = 0}}

NamesAbsentTable == NamedTable # <<>> /\ table_with_name(Catalog, NamedTable[1]) = <<>>

NamesAbsentColumn ==
    /\ NamedTable # <<>>
    /\ table_with_name(Catalog, NamedTable[1]) # <<>>
    /\ \E name \in NamedColumns :
          column_for_name(table_with_name(Catalog, NamedTable[1])[1], name) = 0

\* the columns a SelectQuery references, in its projection and its conditions
ReferencedColumns(q) ==
    Range(q.columns)
    \cup (IF q.where_predicate = <<>> THEN {}
          ELSE {q.where_predicate[1][i].column : i \in DOMAIN q.where_predicate[1]})

ReferencesNamedTable ==
    result[1].ok =>
        /\ NamedTable # <<>>
        /\ table_with_name(Catalog, NamedTable[1]) = <<result[1].val.table>>
        /\ ReferencedColumns(result[1].val) \subseteq Range(result[1].val.table.columns)

\* the tokens after the table name and the word that follows it are not a
\* whole number of conditions of three tokens
TruncatedCondition ==
    /\ Len(QueryTokens) > columns_ending_idx(QueryTokens) + 3
    /\ (Len(QueryTokens) - (columns_ending_idx(QueryTokens) + 3)) % 3 # 0

ResolvedWithCondition ==
    /\ Resolved
    /\ result[1].ok
    /\ result[1].val.where_predicate # <<>>
    /\ result[1].val.where_predicate[1] # <<>>

-----------------------------------------------------------------------------
(* Properties of the schema's encoding and decoding.                       *)

\* a call of get_insertion_bytes has succeeded
InsertionBytesReturned ==
    call.fn = "get_insertion_bytes" /\ result # <<>> /\ result[1].ok

\* a value was supplied for a UuidV4 column of the table
UuidValueSupplied ==
    \E i \in DOMAIN call.d.columns :
        /\ call.d.columns[i].datatype = UuidV4
        /\ FindName(call.columns, call.d.columns[i].name) # 0

\* C18: the bytes get_insertion_bytes returns are exactly one row long, the
\* sum of the columns' size_in_bytes, also when a value is supplied for a
\* UuidV4 column
C18_InsertionBytesRowSize ==
    InsertionBytesReturned => Len(result[1].val) = total_row_size(call.d)

\* what does hold: the bytes are one row long when no value is supplied for
\* a UuidV4 column
InsertionBytesRowSizeWithoutUuidValue ==
    (InsertionBytesReturned /\ ~UuidValueSupplied) =>
        Len(result[1].val) = total_row_size(call.d)

\* a call of parse_string for a Byte(n) column has returned
ByteParsed == call.fn = "parse_string" /\ call.t.tag = "Byte" /\ result # <<>>

\* the text's bytes followed by zero bytes up to n bytes
PaddedBytes(text, n) == as_bytes(text) \o Zeros(n - Len(as_bytes(text)))

\* C19: parse_string for Byte(n) returns an error exactly when the text is
\* n bytes long or longer, and for every shorter text, one of n - 1 bytes
\* included, the text's bytes followed by zero padding to n bytes
C19_ByteRejectsFromWidth ==
    ByteParsed =>
        IF Len(as_bytes(call.value)) >= call.t.n
        THEN ~result[1].ok
        ELSE result[1] = Ok(PaddedBytes(call.value, call.t.n))

\* what does hold: the error comes exactly when the text is n - 1 bytes long
\* or longer, and a shorter text is padded with zeros to n bytes
ByteRejectsFromWidthLessOne ==
    ByteParsed =>
        IF Len(as_bytes(call.value)) >= call.t.n - 1
        THEN ~result[1].ok
        ELSE result[1] = Ok(PaddedBytes(call.value, call.t.n))

\* parse_string accepted the text and parse_bytes was applied to its bytes
ParsedBack == call.fn = "parse_string" /\ Len(result) = 2

\* C20: for every type other than SerialId and every text parse_string
\* accepts, parse_bytes of the bytes parse_string returned is that text
C20_ParseBytesInvertsParseString ==
    (ParsedBack /\ call.t # SerialId) => result[2] = Ok(call.value)

\* a decimal text without a plus sign, without leading zeros and not "-0"
CanonicalDecimal(text) ==
    LET digits == IF text # <<>> /\ text[1] = "-" THEN Tail(text) ELSE text
    IN /\ digits # <<>>
       /\ \A i \in DOMAIN digits : IsDigit(digits[i])
       /\ (digits[1] = "0" => text = <<"0">>)

\* the text is the one parse_bytes writes for its value
CanonicalText(t, text) ==
    CASE t.tag \in IntegerTags -> CanonicalDecimal(text)
      [] t.tag = "UuidV4" -> Len(text) = 36
      [] OTHER -> TRUE

\* what does hold: the text comes back when it is written as parse_bytes
\* writes it
CanonicalTextComesBack ==
    (ParsedBack /\ call.t # SerialId /\ CanonicalText(call.t, call.value)) =>
        result[2] = Ok(call.value)

\* and every accepted text comes back as a text with the same bytes
DecodedTextHasTheSameBytes ==
    (ParsedBack /\ call.t # SerialId) =>
        /\ result[2].ok
        /\ parse_string(call.t, result[2].val) = result[1]

-----------------------------------------------------------------------------
(* Properties of the byte codec.                                           *)

\* a call of to_native_type has returned or panicked
Decoded == call.fn = "to_native_type" /\ result # <<>>

\* C21: decoding a fixed-width integer from a buffer shorter than the width
\* returns an error value and does not abort, and decoding from a buffer at
\* least as long as the width succeeds with the first width bytes
C21_ShortBufferIsAnErrorValue ==
    Decoded =>
        IF Len(call.buf) < call.width
        THEN ~result[1].ok /\ ~result[1].panic
        ELSE result[1] = Ok(SubSeq(call.buf, 1, call.width))

\* what does hold: a buffer at least as long as the width decodes to its
\* first width bytes, and a shorter buffer aborts the call
ShortBufferAborts ==
    Decoded =>
        IF Len(call.buf) < call.width
        THEN result[1].panic
        ELSE result[1] = Ok(SubSeq(call.buf, 1, call.width))

-----------------------------------------------------------------------------
(* Properties of TableDescriptor::new.                                     *)

\* a call of TableDescriptor::new has returned
NewTableReturned == call.fn = "TableDescriptor_new" /\ result # <<>>

\* the positions of the SerialId columns in a declared column list
SerialIdsDeclared == {i \in DOMAIN call.columns : call.columns[i][2] = SerialId}

\* C22: TableDescriptor::new returns a descriptor exactly when the declared
\* columns hold exactly one SerialId column, and an error with none or with
\* two or more; every descriptor it returns has exactly one SerialId column,
\* the one id_column finds
C22_ExactlyOneSerialId ==
    NewTableReturned =>
        /\ result[1].ok <=> Cardinality(SerialIdsDeclared) = 1
        /\ ~result[1].panic
        /\ result[1].ok =>
              /\ Cardinality({i \in DOMAIN result[1].val.columns :
                                 result[1].val.columns[i].datatype = SerialId}) = 1
              /\ id_column(result[1].val).datatype = SerialId

\* a column list with two SerialId columns was rejected
C22_TwoSerialIdsRejected ==
    /\ NewTableReturned
    /\ Cardinality(SerialIdsDeclared) = 2
    /\ ~result[1].ok

\* C23: in every descriptor TableDescriptor::new returns, each column's
\* offset is the sum of size_in_bytes of the columns declared before it, and
\* the offset plus the column's own size never exceeds the row size
C23_OffsetsAreRunningSums ==
    (NewTableReturned /\ result[1].ok) =>
        \A i \in DOMAIN result[1].val.columns :
            /\ result[1].val.columns[i].offset =
                  SumSizes(SubSeq(result[1].val.columns, 1, i - 1))
            /\ result[1].val.columns[i].offset
                  + size_in_bytes(result[1].val.columns[i].datatype)
                  <= total_row_size(result[1].val)

\* a descriptor of three columns of different sizes was returned
C23_ThreeColumnsLaidOut ==
    /\ NewTableReturned
    /\ result[1].ok
    /\ Len(result[1].val.columns) = 3
    /\ result[1].val.columns[2].datatype = UuidV4
    /\ result[1].val.columns[3].datatype = Byte(4)
    /\ result[1].val.columns[3].offset = 136

\* C26: every descriptor TableDescriptor::new returns has pairwise distinct
\* column names
C26_ColumnNamesDistinct ==
    (NewTableReturned /\ result[1].ok) =>
        \A i, j \in DOMAIN result[1].val.columns :
            result[1].val.columns[i].name = result[1].val.columns[j].name => i = j

-----------------------------------------------------------------------------
(* Properties of the catalog and the Database.                             *)

\* the names of the tables of a DatabaseDescriptor
CatalogNames(dd) == {dd.tables[i].table_name : i \in DOMAIN dd.tables}

\* the most recent call was Database::add_table with a name the catalog had
DuplicateAdded ==
    /\ dblast # <<>>
    /\ dblast[1].op = "Database::add_table"
    /\ dblast[1].name \in CatalogNames(dblast[1].before.db.descriptor)

\* C24: Database::add_table with a name the catalog already has fails, and
\* afterwards the table sequence of the catalog is what it was, every name
\* of the catalog has exactly one row store under that name, and no row
\* store is kept under a name outside the catalog
C24_DuplicateTableLeavesCatalog ==
    DuplicateAdded =>
        /\ ~dblast[1].ret.ok
        /\ ~dblast[1].ret.panic
        /\ db.descriptor.tables = dblast[1].before.db.descriptor.tables
        /\ \A n \in CatalogNames(db.descriptor) :
              /\ Cardinality({e \in db.table_stores : e[1] = n}) = 1
              /\ HashMap_get(db.table_stores, n)[1].table_name = n
        /\ \A e \in db.table_stores : e[1] \in CatalogNames(db.descriptor)

\* a second table named "books" was refused by a Database that holds rows of
\* the first
C24_DuplicateRefusedAfterInsert ==
    /\ DuplicateAdded
    /\ ~dblast[1].ret.ok
    /\ Len(fs["books"].bytes) > HeaderSize

\* C25: the table names of a DatabaseDescriptor made by
\* DatabaseDescriptor::new and any number of add_table calls are pairwise
\* distinct
C25_TableNamesDistinct ==
    \A i, j \in DOMAIN dbd.tables :
        dbd.tables[i].table_name = dbd.tables[j].table_name => i = j

\* what does hold: add_table never adds a name the descriptor already has,
\* so the names stay distinct when the tables given to new were distinct
AddTableKeepsNamesDistinct ==
    (dblast # <<>> /\ dblast[1].op = "DatabaseDescriptor::add_table") =>
        /\ dblast[1].ret.ok <=> dblast[1].name \notin CatalogNames(dblast[1].before.dbd)
        /\ ~dblast[1].ret.ok => dbd = dblast[1].before.dbd
        /\ Len(dbd.tables) - Cardinality(CatalogNames(dbd))
              = Len(dblast[1].before.dbd.tables)
                  - Cardinality(CatalogNames(dblast[1].before.dbd))

\* the most recent call was Database::insert_columns with a name the
\* catalog does not have
UnknownTableInserted ==
    /\ dblast # <<>>
    /\ dblast[1].op = "Database::insert_columns"
    /\ dblast[1].name \notin CatalogNames(dblast[1].before.db.descriptor)

\* C29: Database::insert_columns for a table name that is not in the catalog
\* returns an error and changes no row store, no table file and thereby no
\* id counter
C29_UnknownTableChangesNothing ==
    UnknownTableInserted =>
        /\ ~dblast[1].ret.ok
        /\ ~dblast[1].ret.panic
        /\ db = dblast[1].before.db
        /\ fs = dblast[1].before.fs

\* insert_columns for an unknown name was called on a Database that has a
\* table with rows
C29_UnknownTableAfterInsert ==
    /\ UnknownTableInserted
    /\ ~dblast[1].ret.ok
    /\ \E n \in TableNames : fs[n].exists /\ Len(fs[n].bytes) > HeaderSize

-----------------------------------------------------------------------------
(* Properties of get_insertion_bytes.                                      *)

RECURSIVE Concat(_)
Concat(seqs) == IF seqs = <<>> THEN <<>> ELSE seqs[1] \o Concat(Tail(seqs))

\* what the claim expects for the i-th declared column
ExpectedColumnBytes(d, id, columns, i) ==
    IF d.columns[i].datatype = SerialId THEN to_le_bytes(id, 8)
    ELSE IF \E k \in DOMAIN columns : columns[k].name = d.columns[i].name
    THEN parse_string(d.columns[i].datatype,
                      columns[CHOOSE k \in DOMAIN columns :
                                 /\ columns[k].name = d.columns[i].name
                                 /\ \A j \in 1..(k - 1) : columns[j].name # d.columns[i].name]
                          .value).val
    ELSE Zeros(size_in_bytes(d.columns[i].datatype))

\* the arguments whose names are columns of the table other than its
\* SerialId column
ConsultedArgs(d, columns) ==
    SelectSeq(columns,
              LAMBDA a : \E i \in DOMAIN d.columns :
                            d.columns[i].name = a.name /\ d.columns[i].datatype # SerialId)

\* C27: get_insertion_bytes writes, for each declared column in schema
\* order, the encoding of the value supplied under the column's name, the
\* given id for the SerialId column whatever is supplied under its name, or
\* zeros of the column's width where no value is supplied; names that match
\* no declared column do not change the result
C27_InsertionBytesByColumn ==
    (call.fn = "get_insertion_bytes" /\ result # <<>>) =>
        /\ result[1].ok =>
              result[1].val =
                  Concat([i \in DOMAIN call.d.columns |->
                             ExpectedColumnBytes(call.d, call.id, call.columns, i)])
        /\ result[1] =
              get_insertion_bytes(call.d, call.id, ConsultedArgs(call.d, call.columns))

\* bytes were returned for arguments with an unknown name and a value under
\* the name of the SerialId column, and with no value for a column
C27_UnknownNameAndIdValueIgnored ==
    /\ InsertionBytesReturned
    /\ call.d = Books
    /\ call.id = 1
    /\ \E k \in DOMAIN call.columns : call.columns[k].name = "nonesuch"
    /\ \E k \in DOMAIN call.columns : call.columns[k].name = "id"
    /\ \A k \in DOMAIN call.columns : call.columns[k].name # "author"

-----------------------------------------------------------------------------
(* Properties of queries without a WHERE part.                             *)

\* the query text is select <columns> from <table> and nothing more, with a
\* table of the catalog and columns of that table
ResolvedWithoutWhere ==
    /\ Resolved
    /\ QueryTokens # <<>>
    /\ QueryTokens[1] = Words.select
    /\ Len(QueryTokens) = columns_ending_idx(QueryTokens) + 2
    /\ ~NamesAbsentTable
    /\ ~NamesAbsentColumn

\* C28: resolving a query text without a where clause returns a SelectQuery
\* whose where_predicate is absent
C28_NoWhereMeansNoPredicate ==
    ResolvedWithoutWhere =>
        /\ result[1].ok
        /\ result[1].val.where_predicate = <<>>

\* what happens instead: the call does not return
QueryWithoutWhereAborts == ResolvedWithoutWhere => result[1].panic

\* a SelectQuery whose where_predicate is absent, however it was made, does
\* select every stored row
AbsentPredicateSelectsEveryRow ==
    (/\ qres # <<>>
     /\ qres[1].q.where_predicate = <<>>
     /\ qres[1].result.status # "panicked") =>
        Len(qres[1].result.out) = Len(StoredRows)

-----------------------------------------------------------------------------
(* Properties of the Byte(n) columns of stored rows.                       *)

\* the rows the table file of table t holds
TableRows(t) ==
    [r \in 1..(Len(FileByteStore_data(fs[t.table_name])) \div total_row_size(t)) |->
        SubSeq(FileByteStore_data(fs[t.table_name]),
               (r - 1) * total_row_size(t) + 1, r * total_row_size(t))]

\* the bytes of a row of table t that belong to its i-th column
ColumnWindow(t, row, i) ==
    SubSeq(row, t.columns[i].offset + 1,
           t.columns[i].offset + size_in_bytes(t.columns[i].datatype))

\* the bytes a decoder of the i-th column reads: from the column's offset up
\* to the first NUL or the end of the row
BytesRead(t, row, i) ==
    take_while_nonzero(SubSeq(row, t.columns[i].offset + 1, Len(row)))

\* in every row of every table of the Database, the window of each Byte(n)
\* column with n in widths holds a NUL, and a decoder stays inside it
ByteWindowsHoldNul(widths) ==
    \A ti \in DOMAIN db.descriptor.tables :
        \A r \in DOMAIN TableRows(db.descriptor.tables[ti]) :
            \A i \in DOMAIN db.descriptor.tables[ti].columns :
                (/\ db.descriptor.tables[ti].columns[i].datatype.tag = "Byte"
                 /\ db.descriptor.tables[ti].columns[i].datatype.n \in widths) =>
                    /\ 0 \in Range(ColumnWindow(db.descriptor.tables[ti],
                                                TableRows(db.descriptor.tables[ti])[r], i))
                    /\ Len(BytesRead(db.descriptor.tables[ti],
                                     TableRows(db.descriptor.tables[ti])[r], i))
                          <= db.descriptor.tables[ti].columns[i].datatype.n

\* C30: in every row stored through insert, the byte window of each Byte(n)
\* column holds at least one NUL byte, so decoding the column from its
\* offset up to the first NUL never returns bytes of a following column
C30_ByteWindowHoldsNul == ByteWindowsHoldNul(0..MaxByteWidth)

\* what does hold: the same for every Byte(n) column with n of 1 or more
ByteWindowHoldsNulFromWidthOne == ByteWindowsHoldNul(1..MaxByteWidth)

\* a row with a text of n - 2 bytes in a Byte(n) column is stored
LongestByteTextStored ==
    \E ti \in DOMAIN db.descriptor.tables :
        \E r \in DOMAIN TableRows(db.descriptor.tables[ti]) :
            \E i \in DOMAIN db.descriptor.tables[ti].columns :
                /\ db.descriptor.tables[ti].columns[i].datatype.tag = "Byte"
                /\ Len(BytesRead(db.descriptor.tables[ti],
                                 TableRows(db.descriptor.tables[ti])[r], i))
                      = db.descriptor.tables[ti].columns[i].datatype.n - 2
                /\ db.descriptor.tables[ti].columns[i].datatype.n = 4

====
